---------------------------- MODULE Spec2Model ----------------------------
(***************************************************************************)
(* lars-script-runner: the per-command ProcessManager (its Start loop,     *)
(* startProcess, handleProcessFailure, resetFailureState, gracefulShutdown *)
(* and terminateProcess), the dashboard's restart handler and main's       *)
(* shutdown sequence.                                                      *)
(*                                                                         *)
(* Durations are counted in whole seconds.  Goroutine steps take no time:  *)
(* time passes (Advance) only when every goroutine is blocked on a timer,  *)
(* on a managed process or on an outside event.  The restart ticker of a   *)
(* worker is not timed: it may deliver its tick at any moment.             *)
(***************************************************************************)
EXTENDS Integers, FiniteSets, Sequences, TLC

\* ------------------------------------------------------------------ bounds
NumManagers == 2        \* commands in the command file, one ProcessManager each
NumRequests == 1        \* dashboard restart requests served in one run
MaxLaunches == 2        \* successful launches per ProcessManager
MaxAttempts == 3        \* calls of startProcess per ProcessManager
MaxChainAttempts == 37  \* the same, in the single-manager backoff runs
MaxStatusCalls == 3      \* UpdateStats calls from outside the loop of Start
MaxLines == 2            \* lines in a command file
MaxTextLen == 4          \* characters in a command string
MaxClock == 4                \* seconds after which sinceAttempt stops counting
ShortAttempts == 1      \* the same, in the restart and two-manager runs
RetryCeiling == 2       \* the non-zero value of -max-retries that is explored
LongGrace == 3          \* the longest -grace value that is explored (seconds)

\* --------------------------------------------------------- program constants
MaxIdLength == 50             \* dashboard.go:176, dashboard.go:221
MaxCommandLength == 1000      \* main.go:36
MaxScanTokenSize == 65536     \* main.go:613, bufio.MaxScanTokenSize
MaxBackoffDuration == 300     \* main.go:37, 5 * time.Minute in seconds
BackoffMultiplier == 2        \* main.go:38
DefaultRestartInterval == 1   \* main.go:34, time.Second
PowerShellGrace == 2          \* main.go:298
DashboardStopTimeout == 5     \* dashboard.go:86
ForceKillPause == 1           \* main.go:348, 100ms rounded up to one time unit
NanosPerSecondOdd == 1953125  \* time.Second = 10^9 ns = 2^9 * 1953125 ns
Int64Bits == 63               \* time.Duration is an int64: values below 2^63

Managers == 1..NumManagers
Requests == (NumManagers + 1)..(NumManagers + NumRequests)
\* terminateProcess is run by a manager's own goroutine (gracefulShutdown) or
\* by the goroutine of a dashboard request (handleRestart).
Terminators == Managers \cup Requests

StatusStopped == "stopped"
StatusRunning == "running"
StatusFailed == "failed"
StatusStarting == "starting"

VARIABLES
    config,          \* Config: MaxRetries, BackoffEnabled, RestartDelay, GracePeriod, WebDashboard
    goos,            \* runtime.GOOS: "unix" or "windows"
    cmds,            \* per manager: does the command launch, is it a PowerShell command
    attemptBudget,   \* bound on the calls of startProcess per manager in this run
    requestSlots,    \* the requests that may call the restart handler in this run
    pc,              \* per manager: position of its Start goroutine
    currentProc,     \* pm.currentProc: 0 is nil, otherwise the pid of the handle
    failureCount,    \* pm.failureCount (consecutive launch failures)
    backoffDuration, \* pm.backoffDuration, seconds; negative after an int64 overflow
    tickerInterval,  \* the interval the ticker of Start was created with or last reset to
    tickPending,     \* a tick is waiting in ticker.C
    stats,           \* pm.stats
    attempts,        \* number of calls of startProcess so far
    launches,        \* number of successful cmd.Start calls so far; the last pid
    osProc,          \* the operating system's view of each launched process
    waitErr,         \* the error cmd.Wait returned to startProcess (TRUE: non-nil)
    ctxDone,         \* the context of main has been cancelled
    mainPc,          \* position of main
    wg,              \* sync.WaitGroup counter of main
    stopWaited,      \* seconds main has spent in dashboardMgr.Stop
    mainWaited,      \* seconds main has spent in its final select
    term,            \* per terminator: the state of its terminateProcess call
    liveAtCancel,    \* history: the managers whose process was running when
                     \* the context was cancelled
    attemptsAtCancel, \* history: the value of attempts when the context was
                     \* cancelled
    tickAge,         \* per manager: seconds since its ticker was created, was
                     \* reset or fired, counted where time is kept (TimedNext)
    sinceAttempt,    \* per manager: seconds since its last call of
                     \* startProcess began, up to MaxClock
    nextCmd,         \* main, main.go:527: the index of the command the loop
                     \* that creates the managers is at
    snapshot,        \* the ProcessStats value the last GetStats call returned
                     \* to its caller, and the manager it was taken of
    cmdText,         \* the command string given to NewProcessManager, as a
                     \* sequence of characters
    built,           \* what NewProcessManager returned for cmdText
    statusCalls,     \* history, per manager: the number of UpdateStats calls
                     \* with status starting and with status failed, the
                     \* arguments of the last call, and the number of calls
                     \* made from outside the loop of Start
    cmdFile,         \* the lines of the file given to loadCommands
    loaded,          \* what loadCommands returned for cmdFile
    answer           \* the last request the dashboard answered, and the answer

vars == << config, goos, cmds, attemptBudget, requestSlots, pc, currentProc,
           failureCount, backoffDuration, tickerInterval, tickPending, stats,
           attempts, launches, osProc, waitErr, ctxDone, mainPc, wg,
           stopWaited, mainWaited, term, liveAtCancel, attemptsAtCancel,
           tickAge, sinceAttempt, nextCmd, snapshot, cmdText, built,
           statusCalls, cmdFile, loaded, answer >>


\* ---------------------------------------------------------------- helpers
Min(a, b) == IF a < b THEN a ELSE b

RECURSIVE Pow2(_)
Pow2(n) == IF n <= 0 THEN 1 ELSE BackoffMultiplier * Pow2(n - 1)

\* float64(RestartDelay) * math.Pow(2, e) is at least 2^63 nanoseconds, so that
\* its conversion to time.Duration is out of range.  delay is in seconds:
\* delay * 10^9 * 2^e >= 2^63  iff  delay * 1953125 >= 2^(54 - e).
DurationOverflows(delay, e) ==
    LET k == (Int64Bits - 9) - e
    IN  /\ delay > 0
        /\ k <= 30
        /\ (k < 0 \/ delay * NanosPerSecondOdd >= Pow2(k))

\* delay * 2^e > MaxBackoffDuration, computed without leaving 32 bits.
ExceedsMaxBackoff(delay, e) ==
    /\ delay > 0
    /\ (e >= 9 \/ delay * Pow2(e) > MaxBackoffDuration)

\* A backoff whose exponent is the failure count itself.
NewBackoffExponentOffByOne(delay, fc, saturates) ==
    IF DurationOverflows(delay, fc)
    THEN (IF saturates THEN MaxBackoffDuration ELSE -1)
    ELSE IF ExceedsMaxBackoff(delay, fc) THEN MaxBackoffDuration
    ELSE delay * Pow2(fc)

\* handleProcessFailure, main.go:202-208: the new backoff for the failure
\* count fc (already incremented).  An out-of-range conversion gives the most
\* negative int64 on amd64 (here -1) and the largest one on arm64, which the
\* cap then brings down to MaxBackoffDuration: saturates says which.
NewBackoff(delay, fc, saturates) ==
    IF DurationOverflows(delay, fc - 1)
    THEN (IF saturates THEN MaxBackoffDuration ELSE -1)
    ELSE IF ExceedsMaxBackoff(delay, fc - 1) THEN MaxBackoffDuration
    ELSE delay * Pow2(fc - 1)

\* ProcessStats.LastFailure, main.go:69 and 137-139: the time.Time variable
\* the pointer in the statistics s of manager w refers to, named by the
\* manager and the Failed update that allocated it; << 0, 0 >> is nil.
LastFailureRef(w, s) ==
    IF s.HasLastFailure THEN << w, s.FailureCount >> ELSE << 0, 0 >>

\* No GetStats call has returned yet.
NoSnapshot ==
    [ of |-> 0,
      stats |-> [ Status |-> StatusStopped, PID |-> 0, FailureCount |-> 0,
                  HasLastFailure |-> FALSE, RestartCount |-> 0 ],
      lastFailure |-> << 0, 0 >> ]

\* An update that counts every start of a process as a restart.
UpdateStatsCountsRunning(s, status, pid) ==
    [ Status |-> status, PID |-> pid,
      FailureCount |-> IF status = StatusFailed THEN s.FailureCount + 1
                       ELSE s.FailureCount,
      HasLastFailure |-> s.HasLastFailure \/ status = StatusFailed,
      RestartCount |-> IF status \in {StatusStarting, StatusRunning}
                       THEN s.RestartCount + 1
                       ELSE s.RestartCount ]

\* An update that keeps the pid of the last process when it is given pid 0.
UpdateStatsKeepsPid(s, status, pid) ==
    [ Status |-> status, PID |-> IF pid = 0 THEN s.PID ELSE pid,
      FailureCount |-> IF status = StatusFailed THEN s.FailureCount + 1
                       ELSE s.FailureCount,
      HasLastFailure |-> s.HasLastFailure \/ status = StatusFailed,
      RestartCount |-> IF status = StatusStarting THEN s.RestartCount + 1
                       ELSE s.RestartCount ]

\* The history of UpdateStats calls h after one more call.
Recorded(h, status, pid) ==
    [ h EXCEPT !.starting = IF status = StatusStarting THEN @ + 1 ELSE @,
               !.failed = IF status = StatusFailed THEN @ + 1 ELSE @,
               !.lastStatus = status, !.lastPid = pid ]

\* UpdateStats, main.go:120-146 (StartTime and Uptime are not modelled).
UpdateStats(s, status, pid) ==
    [ Status |-> status, PID |-> pid,
      FailureCount |-> IF status = StatusFailed THEN s.FailureCount + 1
                       ELSE s.FailureCount,
      HasLastFailure |-> s.HasLastFailure \/ status = StatusFailed,
      RestartCount |-> IF status = StatusStarting THEN s.RestartCount + 1
                       ELSE s.RestartCount ]

\* A ceiling that is reached one failure late.
MaxFailuresExceededLate(w) ==
    config.MaxRetries > 0 /\ failureCount[w] > config.MaxRetries

\* Start, main.go:177: the max-failure ceiling is reached.
MaxFailuresExceeded(w) ==
    config.MaxRetries > 0 /\ failureCount[w] >= config.MaxRetries

\* A reset that leaves the backoff duration as it is.
ResetKeepsBackoff(fc, bd, delay) ==
    IF fc > 0 THEN [ failureCount |-> 0, backoffDuration |-> bd ]
    ELSE [ failureCount |-> fc, backoffDuration |-> bd ]

\* A reset that leaves the backoff at its ceiling.
ResetToMaxBackoff(fc, bd, delay) ==
    IF fc > 0 THEN [ failureCount |-> 0, backoffDuration |-> MaxBackoffDuration ]
    ELSE [ failureCount |-> fc, backoffDuration |-> bd ]

\* resetFailureState, main.go:222-228: the new failureCount and backoffDuration.
resetFailureState(fc, bd, delay) ==
    IF fc > 0 THEN [ failureCount |-> 0, backoffDuration |-> delay ]
    ELSE [ failureCount |-> fc, backoffDuration |-> bd ]

\* A Wait that returns while the process is running.
WaitNeverBlocks(state) == TRUE

\* cmd.Wait (main.go:258) and proc.Wait (main.go:327) return once the
\* process is no longer running.
WaitReturns(state) == state # "live"

\* An exit that leaves the recorded status at running.
ExitStatusStaysRunning(err) == StatusRunning

\* startProcess, main.go:266-270: the status recorded for the result of cmd.Wait.
ExitStatus(err) == IF err THEN StatusFailed ELSE StatusStopped

\* A select whose shutdown case is ready before the context is cancelled.
ShutdownCaseAlwaysReady == TRUE

\* Start, main.go:171: the ctx.Done case of the select is ready.
ShutdownCaseReady == ctxDone

\* A done channel that is closed before the managers have finished.
WaitGroupDoneEarly == TRUE

\* main, main.go:576-584: wg.Wait has returned and done can be received.
WaitGroupDone == wg = 0

\* A command that is not bound to the context.
ContextNeverKills == FALSE

\* exec.CommandContext (main.go:235): the context kills the started process
\* once it is cancelled.
ContextKills == ctxDone

\* The program is running: main has not called os.Exit and no goroutine panicked.
Alive ==
    mainPc \notin {"shutdownOk", "shutdownTimeout", "crashed", "exit1"}

Looping(w) == pc[w] \notin {"absent", "stopped", "fatal", "panic"}


\* The pid of the process started by the last successful cmd.Start of w.
LastPid(w) == launches[w]

ProcState(w, p) == osProc[w][p]

\* A SIGKILL that has no effect.
KillIgnored(os, w, p) == os

\* SIGKILL (exec's context kill, proc.Kill, killProcessGroup): a running
\* process dies at once with a non-clean result; others are not affected.
Killed(os, w, p) ==
    IF os[w][p] = "live" THEN [os EXCEPT ![w][p] = "exited1"] ELSE os

\* A Wait collects the exit of a process: "exited0" and "exited1" (exited with
\* a clean or a non-clean result, not yet collected) become "reaped0" and
\* "reaped1".
Collected(state) ==
    IF state = "exited0" THEN "reaped0"
    ELSE IF state = "exited1" THEN "reaped1" ELSE state

IsCollected(state) == state \in {"reaped0", "reaped1"}

\* A termination sequence without a grace period.
GraceAlwaysZero(w) == 0

\* terminateProcess, main.go:296-300: the grace period of the sequence.
gracePeriod(w) ==
    IF cmds[w].powershell THEN PowerShellGrace ELSE config.GracePeriod

\* main, main.go:582.
shutdownTimeout == config.GracePeriod * 2

\* A force kill that goes for the single process only.
ForceKillSingleOnly(os, lookupOk, groupKillOk) == << "process" >>

\* forceKillProcess, main.go:396-434: the kills it attempts, in order, given
\* whether getProcessGroupID and killProcessGroup succeed.  "group" is
\* killProcessGroup (platform_unix.go:26-28), "process" is proc.Kill.
forceKillProcess(os, lookupOk, groupKillOk) ==
    IF os = "windows" THEN << "process" >>
    ELSE IF ~lookupOk THEN << "process" >>
    ELSE IF groupKillOk THEN << "group" >>
    ELSE << "group", "process" >>

\* The results getProcessGroupID and killProcessGroup can have: neither is
\* called on Windows.
KillOutcomes == IF goos = "unix" THEN BOOLEAN ELSE {FALSE}

\* A terminator that is not running terminateProcess.  In a running sequence:
\* target and proc are the manager and pid it acts on, waited the seconds spent
\* in the grace wait, slept those spent in the pause after the force kill,
\* waiter whether the goroutine's proc.Wait is still blocked, done whether its
\* result is in the done channel, kills the number of forceKillProcess calls,
\* signalled what SIGTERM was sent to, lookupOk, groupKillOk and killTried the
\* results and the attempts of the last forceKillProcess call,
\* killedAt the value of waited at the first of them and requested whether
\* sendTerminationSignal returned nil.
IdleTerm == [ pc |-> "idle", target |-> 0, proc |-> 0, waited |-> 0,
              slept |-> 0, done |-> FALSE, waiter |-> FALSE, kills |-> 0,
              killedAt |-> -1, requested |-> FALSE, signalled |-> "none",
              lookupOk |-> FALSE, groupKillOk |-> FALSE, killTried |-> << >> ]

\* ------------------------------------------------- ProcessManager.Start loop
\* Start, main.go:166: time.NewTicker panics on a non-positive interval.
NewTicker(w) ==
    /\ Alive /\ pc[w] = "new"
    /\ IF backoffDuration[w] > 0
       THEN /\ tickerInterval' = [tickerInterval EXCEPT ![w] = backoffDuration[w]]
            /\ pc' = [pc EXCEPT ![w] = "select"]
            /\ mainPc' = mainPc
       ELSE /\ tickerInterval' = tickerInterval
            /\ pc' = [pc EXCEPT ![w] = "panic"]
            /\ mainPc' = "crashed"
    /\ UNCHANGED << config, goos, cmds, attemptBudget, requestSlots,
                    currentProc, failureCount, backoffDuration, tickPending,
                    stats, attempts, launches, osProc, waitErr, ctxDone, wg,
                    stopWaited, mainWaited, term, liveAtCancel,
                    attemptsAtCancel, tickAge, sinceAttempt, nextCmd, snapshot,
                    cmdText, built, statusCalls, cmdFile, loaded, answer >>

\* main.go:175-180, the tick of the select with the ceiling reached: return
\* (the deferred ticker.Stop and wg.Done run).
MaxFailuresReturn(w) ==
    /\ Alive /\ pc[w] = "select" /\ tickPending[w]
    /\ MaxFailuresExceeded(w)
    /\ pc' = [pc EXCEPT ![w] = "fatal"]
    /\ tickPending' = [tickPending EXCEPT ![w] = FALSE]
    /\ wg' = wg - 1
    /\ UNCHANGED << config, goos, cmds, attemptBudget, requestSlots,
                    currentProc, failureCount, backoffDuration, tickerInterval,
                    stats, attempts, launches, osProc, waitErr, ctxDone,
                    mainPc, stopWaited, mainWaited, term, liveAtCancel,
                    attemptsAtCancel, tickAge, sinceAttempt, nextCmd, snapshot,
                    cmdText, built, statusCalls, cmdFile, loaded, answer >>

\* main.go:175-182, the tick of the select below the ceiling: startProcess is called.
LaunchAttempt(w) ==
    /\ Alive /\ pc[w] = "select" /\ tickPending[w]
    /\ ~MaxFailuresExceeded(w)
    /\ attempts[w] < attemptBudget
    /\ (cmds[w].launch = "never" \/ launches[w] < MaxLaunches)
    /\ pc' = [pc EXCEPT ![w] = "start"]
    /\ tickPending' = [tickPending EXCEPT ![w] = FALSE]
    /\ attempts' = [attempts EXCEPT ![w] = @ + 1]
    /\ sinceAttempt' = [sinceAttempt EXCEPT ![w] = 0]
    /\ UNCHANGED << config, goos, cmds, attemptBudget, requestSlots,
                    currentProc, failureCount, backoffDuration, tickerInterval,
                    stats, launches, osProc, waitErr, ctxDone, mainPc, wg,
                    stopWaited, mainWaited, term, liveAtCancel,
                    attemptsAtCancel, tickAge, nextCmd, snapshot, cmdText,
                    built, statusCalls, cmdFile, loaded, answer >>

\* startProcess, main.go:235-245: cmd.Start fails (always, once the context is
\* cancelled: exec refuses to start a command whose context is done).
CmdStartFails(w) ==
    /\ Alive /\ pc[w] = "start"
    /\ (ctxDone \/ cmds[w].launch \in {"never", "sometimes"})
    /\ pc' = [pc EXCEPT ![w] = "failed"]
    /\ UNCHANGED << config, goos, cmds, attemptBudget, requestSlots,
                    currentProc, failureCount, backoffDuration, tickerInterval,
                    tickPending, stats, attempts, launches, osProc, waitErr,
                    ctxDone, mainPc, wg, stopWaited, mainWaited, term,
                    liveAtCancel, attemptsAtCancel, tickAge, sinceAttempt,
                    nextCmd, snapshot, cmdText, built, statusCalls, cmdFile,
                    loaded, answer >>

\* startProcess, main.go:243: cmd.Start succeeds, the process runs.
CmdStartSucceeds(w) ==
    /\ Alive /\ pc[w] = "start"
    /\ ~ctxDone /\ cmds[w].launch \in {"always", "sometimes"}
    /\ launches' = [launches EXCEPT ![w] = @ + 1]
    /\ osProc' = [osProc EXCEPT ![w][launches[w] + 1] = "live"]
    /\ pc' = [pc EXCEPT ![w] = "store"]
    /\ UNCHANGED << config, goos, cmds, attemptBudget, requestSlots,
                    currentProc, failureCount, backoffDuration, tickerInterval,
                    tickPending, stats, attempts, waitErr, ctxDone, mainPc, wg,
                    stopWaited, mainWaited, term, liveAtCancel,
                    attemptsAtCancel, tickAge, sinceAttempt, nextCmd, snapshot,
                    cmdText, built, statusCalls, cmdFile, loaded, answer >>

\* startProcess, main.go:248-250.
StoreCurrentProc(w) ==
    /\ Alive /\ pc[w] = "store"
    /\ currentProc' = [currentProc EXCEPT ![w] = LastPid(w)]
    /\ pc' = [pc EXCEPT ![w] = "updRunning"]
    /\ UNCHANGED << config, goos, cmds, attemptBudget, requestSlots,
                    failureCount, backoffDuration, tickerInterval, tickPending,
                    stats, attempts, launches, osProc, waitErr, ctxDone,
                    mainPc, wg, stopWaited, mainWaited, term, liveAtCancel,
                    attemptsAtCancel, tickAge, sinceAttempt, nextCmd, snapshot,
                    cmdText, built, statusCalls, cmdFile, loaded, answer >>

\* startProcess, main.go:253.
UpdateStatsRunning(w) ==
    /\ Alive /\ pc[w] = "updRunning"
    /\ stats' = [stats EXCEPT ![w] = UpdateStats(@, StatusRunning, LastPid(w))]
    /\ statusCalls' = [statusCalls EXCEPT
                          ![w] = Recorded(@, StatusRunning, LastPid(w))]
    /\ pc' = [pc EXCEPT ![w] = "wait"]
    /\ UNCHANGED << config, goos, cmds, attemptBudget, requestSlots,
                    currentProc, failureCount, backoffDuration, tickerInterval,
                    tickPending, attempts, launches, osProc, waitErr, ctxDone,
                    mainPc, wg, stopWaited, mainWaited, term, liveAtCancel,
                    attemptsAtCancel, tickAge, sinceAttempt, nextCmd, snapshot,
                    cmdText, built, cmdFile, loaded, answer >>

\* startProcess, main.go:258: cmd.Wait returns.  Its error is nil only when
\* it collects a clean exit itself; when the proc.Wait of a termination
\* sequence has already collected the exit, cmd.Wait returns an error.
CmdWait(w) ==
    /\ Alive /\ pc[w] = "wait"
    /\ WaitReturns(ProcState(w, LastPid(w)))
    /\ waitErr' = [waitErr EXCEPT ![w] = ProcState(w, LastPid(w)) # "exited0"]
    /\ osProc' = [osProc EXCEPT ![w][LastPid(w)] = Collected(@)]
    /\ pc' = [pc EXCEPT ![w] = "clear"]
    /\ UNCHANGED << config, goos, cmds, attemptBudget, requestSlots,
                    currentProc, failureCount, backoffDuration, tickerInterval,
                    tickPending, stats, attempts, launches, ctxDone, mainPc,
                    wg, stopWaited, mainWaited, term, liveAtCancel,
                    attemptsAtCancel, tickAge, sinceAttempt, nextCmd, snapshot,
                    cmdText, built, statusCalls, cmdFile, loaded, answer >>

\* startProcess, main.go:261-263.
ClearCurrentProc(w) ==
    /\ Alive /\ pc[w] = "clear"
    /\ currentProc' = [currentProc EXCEPT ![w] = 0]
    /\ pc' = [pc EXCEPT ![w] = "updExit"]
    /\ UNCHANGED << config, goos, cmds, attemptBudget, requestSlots,
                    failureCount, backoffDuration, tickerInterval, tickPending,
                    stats, attempts, launches, osProc, waitErr, ctxDone,
                    mainPc, wg, stopWaited, mainWaited, term, liveAtCancel,
                    attemptsAtCancel, tickAge, sinceAttempt, nextCmd, snapshot,
                    cmdText, built, statusCalls, cmdFile, loaded, answer >>

\* startProcess, main.go:266-283: the exit is recorded and nil is returned.
UpdateStatsExit(w) ==
    /\ Alive /\ pc[w] = "updExit"
    /\ stats' = [stats EXCEPT ![w] = UpdateStats(@, ExitStatus(waitErr[w]), 0)]
    /\ statusCalls' = [statusCalls EXCEPT
                          ![w] = Recorded(@, ExitStatus(waitErr[w]), 0)]
    /\ pc' = [pc EXCEPT ![w] = "returned"]
    /\ UNCHANGED << config, goos, cmds, attemptBudget, requestSlots,
                    currentProc, failureCount, backoffDuration, tickerInterval,
                    tickPending, attempts, launches, osProc, waitErr, ctxDone,
                    mainPc, wg, stopWaited, mainWaited, term, liveAtCancel,
                    attemptsAtCancel, tickAge, sinceAttempt, nextCmd, snapshot,
                    cmdText, built, cmdFile, loaded, answer >>

\* A Reset that always empties the channel of the ticker.
ResetAlwaysDrains(pending) == {FALSE}

\* ticker.Reset, main.go:185 and main.go:189: whether a tick is in ticker.C
\* after the Reset, given whether one was there before.  A timer channel of
\* Go 1.23 and later delivers no tick prepared before the Reset; earlier
\* timers (and asynctimerchan=1) leave a buffered tick in the channel.
TickAfterReset(pending) == IF pending THEN {FALSE, TRUE} ELSE {FALSE}

\* Start, main.go:186-190: startProcess returned nil.  ticker.Reset panics
\* on a non-positive interval; the ticks of the new interval begin at the
\* Reset.
StartReturnedNil(w) ==
    /\ Alive /\ pc[w] = "returned"
    /\ LET r == resetFailureState(failureCount[w], backoffDuration[w],
                                  config.RestartDelay)
       IN  /\ failureCount' = [failureCount EXCEPT ![w] = r.failureCount]
           /\ backoffDuration' = [backoffDuration EXCEPT ![w] = r.backoffDuration]
    /\ IF config.RestartDelay > 0
       THEN /\ tickerInterval' = [tickerInterval EXCEPT ![w] = config.RestartDelay]
            /\ pc' = [pc EXCEPT ![w] = "select"]
            /\ mainPc' = mainPc
       ELSE /\ tickerInterval' = tickerInterval
            /\ pc' = [pc EXCEPT ![w] = "panic"]
            /\ mainPc' = "crashed"
    /\ \E stale \in TickAfterReset(tickPending[w]) :
         tickPending' = [tickPending EXCEPT ![w] = stale]
    /\ tickAge' = [tickAge EXCEPT ![w] = 0]
    /\ UNCHANGED << config, goos, cmds, attemptBudget, requestSlots,
                    currentProc, stats, attempts, launches, osProc, waitErr,
                    ctxDone, wg, stopWaited, mainWaited, term, liveAtCancel,
                    attemptsAtCancel, sinceAttempt, nextCmd, snapshot, cmdText,
                    built, statusCalls, cmdFile, loaded, answer >>

\* Start, main.go:182-185 with handleProcessFailure, main.go:196-219:
\* startProcess returned an error.
StartReturnedError(w) ==
    /\ Alive /\ pc[w] = "failed"
    /\ \E saturates \in BOOLEAN :
         LET fc == failureCount[w] + 1
             bd == IF config.BackoffEnabled
                   THEN NewBackoff(config.RestartDelay, fc, saturates)
                   ELSE backoffDuration[w]
         IN  /\ failureCount' = [failureCount EXCEPT ![w] = fc]
             /\ backoffDuration' = [backoffDuration EXCEPT ![w] = bd]
             /\ IF bd > 0
                THEN /\ tickerInterval' = [tickerInterval EXCEPT ![w] = bd]
                     /\ pc' = [pc EXCEPT ![w] = "select"]
                     /\ mainPc' = mainPc
                ELSE /\ tickerInterval' = tickerInterval
                     /\ pc' = [pc EXCEPT ![w] = "panic"]
                     /\ mainPc' = "crashed"
    /\ \E stale \in TickAfterReset(tickPending[w]) :
         tickPending' = [tickPending EXCEPT ![w] = stale]
    /\ tickAge' = [tickAge EXCEPT ![w] = 0]
    /\ UNCHANGED << config, goos, cmds, attemptBudget, requestSlots,
                    currentProc, stats, attempts, launches, osProc, waitErr,
                    ctxDone, wg, stopWaited, mainWaited, term, liveAtCancel,
                    attemptsAtCancel, sinceAttempt, nextCmd, snapshot, cmdText,
                    built, statusCalls, cmdFile, loaded, answer >>

\* Start, main.go:171-172: the select takes the ctx.Done case.
ShutdownRequested(w) ==
    /\ Alive /\ pc[w] = "select" /\ ShutdownCaseReady
    /\ pc' = [pc EXCEPT ![w] = "shutdown"]
    /\ UNCHANGED << config, goos, cmds, attemptBudget, requestSlots,
                    currentProc, failureCount, backoffDuration, tickerInterval,
                    tickPending, stats, attempts, launches, osProc, waitErr,
                    ctxDone, mainPc, wg, stopWaited, mainWaited, term,
                    liveAtCancel, attemptsAtCancel, tickAge, sinceAttempt,
                    nextCmd, snapshot, cmdText, built, statusCalls, cmdFile,
                    loaded, answer >>

\* gracefulShutdown, main.go:437-447, and the return of Start, main.go:174:
\* with no process the manager returns at once, otherwise terminateProcess runs.
gracefulShutdown(w) ==
    /\ Alive /\ pc[w] = "shutdown"
    /\ IF currentProc[w] = 0
       THEN /\ pc' = [pc EXCEPT ![w] = "stopped"]
            /\ wg' = wg - 1
            /\ term' = term
       ELSE /\ pc' = [pc EXCEPT ![w] = "terminating"]
            /\ wg' = wg
            /\ term' = [term EXCEPT ![w] =
                   [IdleTerm EXCEPT !.pc = "signal", !.target = w,
                                    !.proc = currentProc[w]]]
    /\ UNCHANGED << config, goos, cmds, attemptBudget, requestSlots,
                    currentProc, failureCount, backoffDuration, tickerInterval,
                    tickPending, stats, attempts, launches, osProc, waitErr,
                    ctxDone, mainPc, stopWaited, mainWaited, liveAtCancel,
                    attemptsAtCancel, tickAge, sinceAttempt, nextCmd, snapshot,
                    cmdText, built, statusCalls, cmdFile, loaded, answer >>

\* The ticker of Start (main.go:166) delivers a tick.  A tick delivered while
\* the goroutine is not in the select is dropped or found by the select after
\* the next Reset, which this action covers too.
TickerFires(w) ==
    /\ Alive /\ pc[w] = "select" /\ ~tickPending[w]
    /\ tickPending' = [tickPending EXCEPT ![w] = TRUE]
    /\ UNCHANGED << config, goos, cmds, attemptBudget, requestSlots, pc,
                    currentProc, failureCount, backoffDuration, tickerInterval,
                    stats, attempts, launches, osProc, waitErr, ctxDone,
                    mainPc, wg, stopWaited, mainWaited, term, liveAtCancel,
                    attemptsAtCancel, tickAge, sinceAttempt, nextCmd, snapshot,
                    cmdText, built, statusCalls, cmdFile, loaded, answer >>

\* --------------------------------------------------- the managed processes
\* A running process exits by itself, cleanly or not.
ProcessExits(w) ==
    /\ Alive
    /\ \E p \in 1..MaxLaunches, clean \in BOOLEAN :
         /\ ProcState(w, p) = "live"
         /\ osProc' = [osProc EXCEPT ![w][p] =
                          IF clean THEN "exited0" ELSE "exited1"]
    /\ UNCHANGED << config, goos, cmds, attemptBudget, requestSlots, pc,
                    currentProc, failureCount, backoffDuration, tickerInterval,
                    tickPending, stats, attempts, launches, waitErr, ctxDone,
                    mainPc, wg, stopWaited, mainWaited, term, liveAtCancel,
                    attemptsAtCancel, tickAge, sinceAttempt, nextCmd, snapshot,
                    cmdText, built, statusCalls, cmdFile, loaded, answer >>

\* exec.CommandContext, main.go:235: the started command is killed when the
\* context is cancelled before cmd.Wait has returned.
ContextKill(w) ==
    /\ Alive /\ pc[w] \in {"store", "updRunning", "wait"}
    /\ ContextKills
    /\ ProcState(w, LastPid(w)) = "live"
    /\ osProc' = Killed(osProc, w, LastPid(w))
    /\ UNCHANGED << config, goos, cmds, attemptBudget, requestSlots, pc,
                    currentProc, failureCount, backoffDuration, tickerInterval,
                    tickPending, stats, attempts, launches, waitErr, ctxDone,
                    mainPc, wg, stopWaited, mainWaited, term, liveAtCancel,
                    attemptsAtCancel, tickAge, sinceAttempt, nextCmd, snapshot,
                    cmdText, built, statusCalls, cmdFile, loaded, answer >>


\* ---------------------------------------------------------------- GetStats
\* GetStats, main.go:149-159, called by the dashboard (dashboard.go:148, 191):
\* 'stats := pm.stats' copies the struct under the read lock, and with it the
\* pointer LastFailure, not the variable it points to.
GetStats(w) ==
    /\ Alive /\ pc[w] # "absent"
    /\ snapshot' = [ of |-> w, stats |-> stats[w],
                     lastFailure |-> LastFailureRef(w, stats[w]) ]
    /\ UNCHANGED << config, goos, cmds, attemptBudget, requestSlots, pc,
                    currentProc, failureCount, backoffDuration, tickerInterval,
                    tickPending, stats, attempts, launches, osProc, waitErr,
                    ctxDone, mainPc, wg, stopWaited, mainWaited, term,
                    liveAtCancel, attemptsAtCancel, tickAge, sinceAttempt,
                    nextCmd, cmdText, built, statusCalls, cmdFile, loaded,
                    answer >>

\* ------------------------------------------------------------- UpdateStats
\* The statuses and pids a caller outside the loop of Start passes.
Statuses == {StatusStopped, StatusRunning, StatusFailed, StatusStarting}

CallerPids == 0..1

\* UpdateStats, main.go:120-146, called on manager w by a caller outside
\* the loop of Start; the mutex of lines 121-122 makes the call one step.
UpdateStatsCalled(w, status, pid) ==
    /\ Alive /\ pc[w] # "absent"
    /\ statusCalls[w].external < MaxStatusCalls
    /\ stats' = [stats EXCEPT ![w] = UpdateStats(@, status, pid)]
    /\ statusCalls' = [statusCalls EXCEPT
                          ![w] = [Recorded(@, status, pid) EXCEPT
                                     !.external = @ + 1]]
    /\ UNCHANGED << config, goos, cmds, attemptBudget, requestSlots, pc,
                    currentProc, failureCount, backoffDuration, tickerInterval,
                    tickPending, attempts, launches, osProc, waitErr, ctxDone,
                    mainPc, wg, stopWaited, mainWaited, term, liveAtCancel,
                    attemptsAtCancel, tickAge, sinceAttempt, nextCmd, snapshot,
                    cmdText, built, cmdFile, loaded, answer >>

\* ------------------------------------------------------ the ticker in time
\* Manager w has a ticker: Start is past time.NewTicker and has not returned.
HasTicker(w) == Looping(w) /\ pc[w] # "new"

\* The goroutine of w is where time can pass: waiting in the select
\* (main.go:170), in cmd.Start (main.go:243) or in cmd.Wait (main.go:258)
\* while the process runs.
Blocked(w) ==
    \/ pc[w] = "select" /\ ~tickPending[w]
    \/ pc[w] = "start"
    \/ pc[w] = "wait" /\ ProcState(w, LastPid(w)) = "live"

\* The ticker of Start delivers the tick of a full interval, wherever the
\* goroutine is: ticker.C holds one tick, a second one is dropped.
TickerFiresOnTime(w) ==
    /\ Alive /\ HasTicker(w)
    /\ tickAge[w] >= tickerInterval[w]
    /\ tickPending' = [tickPending EXCEPT ![w] = TRUE]
    /\ tickAge' = [tickAge EXCEPT ![w] = 0]
    /\ UNCHANGED << config, goos, cmds, attemptBudget, requestSlots, pc,
                    currentProc, failureCount, backoffDuration, tickerInterval,
                    stats, attempts, launches, osProc, waitErr, ctxDone,
                    mainPc, wg, stopWaited, mainWaited, term, liveAtCancel,
                    attemptsAtCancel, sinceAttempt, nextCmd, snapshot, cmdText,
                    built, statusCalls, cmdFile, loaded, answer >>

\* One second passes for the tickers: no tick is due and every goroutine of
\* Start is blocked.
TimePasses ==
    /\ Alive
    /\ \E w \in Managers : HasTicker(w)
    /\ \A w \in Managers :
          HasTicker(w) => Blocked(w) /\ tickAge[w] < tickerInterval[w]
    /\ tickAge' = [w \in Managers |->
                      IF HasTicker(w) THEN tickAge[w] + 1 ELSE tickAge[w]]
    /\ sinceAttempt' = [w \in Managers |->
                           IF attempts[w] >= 1
                           THEN Min(sinceAttempt[w] + 1, MaxClock)
                           ELSE sinceAttempt[w]]
    /\ UNCHANGED << config, goos, cmds, attemptBudget, requestSlots, pc,
                    currentProc, failureCount, backoffDuration, tickerInterval,
                    tickPending, stats, attempts, launches, osProc, waitErr,
                    ctxDone, mainPc, wg, stopWaited, mainWaited, term,
                    liveAtCancel, attemptsAtCancel, nextCmd, snapshot, cmdText,
                    built, statusCalls, cmdFile, loaded, answer >>

\* ------------------------------------------------------- dashboard requests
\* The id of a request: the name process_<name> if name is positive, then
\* the characters of extra, then pad times the letter a.
Id(name, extra, pad) == [ name |-> name, extra |-> extra, pad |-> pad ]

\* main, main.go:529: the id of the manager of command w.
ProcessID(w) == Id(w, << >>, 0)

IdPrefix == << "p", "r", "o", "c", "e", "s", "s", "_" >>

IdLen(id) ==
    (IF id.name > 0 THEN Len(IdPrefix) + 1 ELSE 0) + Len(id.extra) + id.pad

\* The characters of strings.ContainsAny, dashboard.go:176 and 221.
BadIdChars == {".", "/", "\\", "?", "*", "|", "<", ">", ":"}

\* dashboard.go:176 and dashboard.go:221: the id is refused as invalid.
InvalidId(id) ==
    \/ IdLen(id) = 0 \/ IdLen(id) > MaxIdLength
    \/ \E i \in 1..Len(id.extra) : id.extra[i] \in BadIdChars

\* dm.processes[id] exists, dashboard.go:182 and 227; RegisterProcess is
\* called for every manager that is constructed (main.go:538).
Registered(id) ==
    /\ id.extra = << >> /\ id.pad = 0
    /\ id.name \in Managers /\ pc[id.name] # "absent"

Answer(handler, method, id, code, body) ==
    [ handler |-> handler, method |-> method, id |-> id, code |-> code,
      body |-> body ]

\* handleRestart, dashboard.go:244-248: the answer to a restart request
\* for the registered manager w.
Restarted(w) == Answer("restart", "POST", ProcessID(w), 200, "restarted")

\* A handler that answers 'not found' for every id it does not serve.
RefusalWithoutIdCheck(method, id) == IF method # "POST" THEN 405 ELSE 404

\* handleRestart, dashboard.go:212-232: the status of the error answer.
Refusal(method, id) ==
    IF method # "POST" THEN 405 ELSE IF InvalidId(id) THEN 400 ELSE 404

\* handleRestart, dashboard.go:211-233, for a request it refuses.
handleRestartRefused(method, id) ==
    /\ Alive /\ config.WebDashboard /\ mainPc \in {"run", "cancelled"}
    /\ method # "POST" \/ InvalidId(id) \/ ~Registered(id)
    /\ answer' = Answer("restart", method, id, Refusal(method, id), "error")
    /\ UNCHANGED << config, goos, cmds, attemptBudget, requestSlots, pc,
                    currentProc, failureCount, backoffDuration,
                    tickerInterval, tickPending, stats, attempts, launches,
                    osProc, waitErr, ctxDone, mainPc, wg, stopWaited,
                    mainWaited, term, liveAtCancel, attemptsAtCancel,
                    tickAge, sinceAttempt, nextCmd, snapshot, cmdText, built,
                    statusCalls, cmdFile, loaded >>

\* handleProcess, dashboard.go:172-208: no check of the method; the
\* statistics of a registered manager are read with GetStats.
handleProcess(method, id) ==
    /\ Alive /\ config.WebDashboard /\ mainPc \in {"run", "cancelled"}
    /\ IF InvalidId(id)
       THEN /\ answer' = Answer("process", method, id, 400, "error")
            /\ snapshot' = snapshot
       ELSE IF ~Registered(id)
            THEN /\ answer' = Answer("process", method, id, 404, "error")
                 /\ snapshot' = snapshot
            ELSE /\ answer' = Answer("process", method, id, 200, "stats")
                 /\ snapshot' =
                       [ of |-> id.name, stats |-> stats[id.name],
                         lastFailure |->
                             LastFailureRef(id.name, stats[id.name]) ]
    /\ UNCHANGED << config, goos, cmds, attemptBudget, requestSlots, pc,
                    currentProc, failureCount, backoffDuration,
                    tickerInterval, tickPending, stats, attempts, launches,
                    osProc, waitErr, ctxDone, mainPc, wg, stopWaited,
                    mainWaited, term, liveAtCancel, attemptsAtCancel,
                    tickAge, sinceAttempt, nextCmd, cmdText, built,
                    statusCalls, cmdFile, loaded >>

\* ------------------------------------------------------- terminateProcess
InFlight(t) == term[t].pc # "idle"

\* handleRestart, dashboard.go:211-249, for the registered manager w: the
\* handle is read under the read lock; without a process the request is
\* answered at once.
handleRestart(r, w) ==
    /\ Alive /\ config.WebDashboard /\ mainPc \in {"run", "cancelled"}
    /\ Looping(w) \/ pc[w] \in {"stopped", "fatal"}
    /\ r \in requestSlots /\ term[r].pc = "idle"
    /\ term' = [term EXCEPT ![r] =
           IF currentProc[w] = 0
           THEN IdleTerm
           ELSE [IdleTerm EXCEPT !.pc = "signal", !.target = w,
                                 !.proc = currentProc[w]]]
    /\ answer' = IF currentProc[w] = 0 THEN Restarted(w) ELSE answer
    /\ UNCHANGED << config, goos, cmds, attemptBudget, requestSlots, pc,
                    currentProc, failureCount, backoffDuration, tickerInterval,
                    tickPending, stats, attempts, launches, osProc, waitErr,
                    ctxDone, mainPc, wg, stopWaited, mainWaited, liveAtCancel,
                    attemptsAtCancel, tickAge, sinceAttempt, nextCmd, snapshot,
                    cmdText, built, statusCalls, cmdFile, loaded >>

\* sendTerminationSignal, main.go:354-380, called at main.go:303.
\* Unix: proc.Signal(SIGTERM) fails once the exit of the process has been
\* collected.  Windows: isProcessRunning is the result of proc.Signal(0); a
\* running PowerShell command is force-killed and an error is returned.
sendTerminationSignal(t) ==
    /\ Alive /\ term[t].pc = "signal"
    /\ LET w == term[t].target
           p == term[t].proc
           collected == IsCollected(ProcState(w, p))
       IN  IF goos = "unix"
           THEN /\ term' = [term EXCEPT ![t].pc =
                               IF collected THEN "signalFailed" ELSE "wait",
                                        ![t].waiter = ~collected,
                                        ![t].requested = ~collected,
                                        ![t].signalled =
                               IF collected THEN "none" ELSE "process"]
                /\ osProc' = osProc
           ELSE \E running \in (IF collected THEN {FALSE} ELSE BOOLEAN) :
                  IF running /\ cmds[w].powershell
                  THEN /\ term' = [term EXCEPT ![t].pc = "signalFailed",
                                               ![t].kills = @ + 1,
                                               ![t].killedAt = 0,
                                               ![t].killTried =
                                   forceKillProcess(goos, FALSE, FALSE)]
                       /\ osProc' = Killed(osProc, w, p)
                  ELSE /\ term' = [term EXCEPT ![t].pc = "wait",
                                               ![t].waiter = TRUE,
                                               ![t].requested = TRUE]
                       /\ osProc' = osProc
    /\ UNCHANGED << config, goos, cmds, attemptBudget, requestSlots, pc,
                    currentProc, failureCount, backoffDuration, tickerInterval,
                    tickPending, stats, attempts, launches, waitErr, ctxDone,
                    mainPc, wg, stopWaited, mainWaited, liveAtCancel,
                    attemptsAtCancel, tickAge, sinceAttempt, nextCmd, snapshot,
                    cmdText, built, statusCalls, cmdFile, loaded, answer >>

\* A sequence that goes on to the grace wait after the force kill.
AfterSignalErrorWaits == "wait"

\* terminateProcess, main.go:307: the return after the force kill.
AfterSignalError == "return"

\* terminateProcess, main.go:303-308: the signal could not be sent, force kill
\* and return.
ForceKillAfterSignalError(t) ==
    /\ Alive /\ term[t].pc = "signalFailed"
    /\ \E lookupOk \in KillOutcomes, groupKillOk \in KillOutcomes :
         term' = [term EXCEPT
                     ![t].pc = AfterSignalError, ![t].kills = @ + 1,
                     ![t].killedAt = IF @ < 0 THEN 0 ELSE @,
                     ![t].lookupOk = lookupOk, ![t].groupKillOk = groupKillOk,
                     ![t].killTried =
                         forceKillProcess(goos, lookupOk, groupKillOk)]
    /\ osProc' = Killed(osProc, term[t].target, term[t].proc)
    /\ UNCHANGED << config, goos, cmds, attemptBudget, requestSlots, pc,
                    currentProc, failureCount, backoffDuration, tickerInterval,
                    tickPending, stats, attempts, launches, waitErr, ctxDone,
                    mainPc, wg, stopWaited, mainWaited, liveAtCancel,
                    attemptsAtCancel, tickAge, sinceAttempt, nextCmd, snapshot,
                    cmdText, built, statusCalls, cmdFile, loaded, answer >>

\* terminateProcess, main.go:316-333: the goroutine's proc.Wait returns and
\* the result is sent to done.  When the exit has not been collected yet this
\* proc.Wait may collect it, ahead of the cmd.Wait of startProcess.
WaiterReports(t) ==
    /\ Alive /\ term[t].pc = "wait" /\ term[t].waiter
    /\ WaitReturns(ProcState(term[t].target, term[t].proc))
    /\ term' = [term EXCEPT ![t].waiter = FALSE, ![t].done = TRUE]
    /\ \E collects \in BOOLEAN :
         osProc' = IF collects
                   THEN [osProc EXCEPT ![term[t].target][term[t].proc] =
                                           Collected(@)]
                   ELSE osProc
    /\ UNCHANGED << config, goos, cmds, attemptBudget, requestSlots, pc,
                    currentProc, failureCount, backoffDuration, tickerInterval,
                    tickPending, stats, attempts, launches, waitErr, ctxDone,
                    mainPc, wg, stopWaited, mainWaited, liveAtCancel,
                    attemptsAtCancel, tickAge, sinceAttempt, nextCmd, snapshot,
                    cmdText, built, statusCalls, cmdFile, loaded, answer >>

\* terminateProcess, main.go:335-341: the select receives from done.
GracefulExitObserved(t) ==
    /\ Alive /\ term[t].pc = "wait" /\ term[t].done
    /\ term' = [term EXCEPT ![t].pc = "return"]
    /\ UNCHANGED << config, goos, cmds, attemptBudget, requestSlots, pc,
                    currentProc, failureCount, backoffDuration, tickerInterval,
                    tickPending, stats, attempts, launches, osProc, waitErr,
                    ctxDone, mainPc, wg, stopWaited, mainWaited, liveAtCancel,
                    attemptsAtCancel, tickAge, sinceAttempt, nextCmd, snapshot,
                    cmdText, built, statusCalls, cmdFile, loaded, answer >>

\* terminateProcess, main.go:342-345: the grace period is over, force kill.
\* The goroutine's proc.Wait, if still blocked, returns after the kill and may
\* collect the exit ahead of cmd.Wait.
GraceTimeout(t) ==
    /\ Alive /\ term[t].pc = "wait"
    /\ term[t].waited >= gracePeriod(term[t].target)
    /\ \E lookupOk \in KillOutcomes, groupKillOk \in KillOutcomes :
         term' = [term EXCEPT
                     ![t].pc = "sleep", ![t].kills = @ + 1,
                     ![t].killedAt = term[t].waited, ![t].waiter = FALSE,
                     ![t].lookupOk = lookupOk, ![t].groupKillOk = groupKillOk,
                     ![t].killTried =
                         forceKillProcess(goos, lookupOk, groupKillOk)]
    /\ \E collects \in (IF term[t].waiter THEN BOOLEAN ELSE {FALSE}) :
         LET os == Killed(osProc, term[t].target, term[t].proc)
         IN  osProc' = IF collects
                       THEN [os EXCEPT ![term[t].target][term[t].proc] =
                                       Collected(@)]
                       ELSE os
    /\ UNCHANGED << config, goos, cmds, attemptBudget, requestSlots, pc,
                    currentProc, failureCount, backoffDuration, tickerInterval,
                    tickPending, stats, attempts, launches, waitErr, ctxDone,
                    mainPc, wg, stopWaited, mainWaited, liveAtCancel,
                    attemptsAtCancel, tickAge, sinceAttempt, nextCmd, snapshot,
                    cmdText, built, statusCalls, cmdFile, loaded, answer >>

\* terminateProcess, main.go:348-350: the pause after the force kill is over.
ForceKillPauseOver(t) ==
    /\ Alive /\ term[t].pc = "sleep" /\ term[t].slept >= ForceKillPause
    /\ term' = [term EXCEPT ![t].pc = "return"]
    /\ UNCHANGED << config, goos, cmds, attemptBudget, requestSlots, pc,
                    currentProc, failureCount, backoffDuration, tickerInterval,
                    tickPending, stats, attempts, launches, osProc, waitErr,
                    ctxDone, mainPc, wg, stopWaited, mainWaited, liveAtCancel,
                    attemptsAtCancel, tickAge, sinceAttempt, nextCmd, snapshot,
                    cmdText, built, statusCalls, cmdFile, loaded, answer >>

\* A termination sequence that clears the handle of its target on return.
TerminationClearsHandle(cp, w) == [cp EXCEPT ![w] = 0]

\* A termination sequence that stores the handle it was given again.
TerminationRestoresHandle(cp, w) == [cp EXCEPT ![w] = launches[w]]

\* terminateProcess, main.go:292-351, called with the handle that
\* handleRestart read under the read lock (dashboard.go:236-242): the handles
\* cp after the sequence against the process of w.  Neither function assigns
\* pm.currentProc.
HandleAfterTermination(cp, w) == cp

\* terminateProcess returns: to gracefulShutdown and the return of Start
\* (main.go:173-174), or to handleRestart, which answers (dashboard.go:244-248).
TerminateReturns(t) ==
    /\ Alive /\ term[t].pc = "return"
    /\ term' = [term EXCEPT ![t] = IdleTerm]
    /\ currentProc' = HandleAfterTermination(currentProc, term[t].target)
    /\ IF t \in Managers
       THEN /\ pc' = [pc EXCEPT ![t] = "stopped"]
            /\ wg' = wg - 1
       ELSE /\ pc' = pc
            /\ wg' = wg
    /\ answer' = IF t \in Requests THEN Restarted(term[t].target) ELSE answer
    /\ UNCHANGED << config, goos, cmds, attemptBudget, requestSlots,
                    failureCount, backoffDuration, tickerInterval, tickPending,
                    stats, attempts, launches, osProc, waitErr, ctxDone,
                    mainPc, stopWaited, mainWaited, liveAtCancel,
                    attemptsAtCancel, tickAge, sinceAttempt, nextCmd, snapshot,
                    cmdText, built, statusCalls, cmdFile, loaded >>

\* ------------------------------------------------------------ main: startup
\* NewProcessManager, main.go:97-100: strings.Fields(cmd) has a token.
Constructible(c) == c.launch # "empty"

\* main, main.go:527 and 543: the managers created and started so far.
validProcesses == Cardinality({w \in Managers : pc[w] # "absent"})

\* A startup that fails when any command was skipped.
StartupFailsOnSkip(valid) == valid < NumManagers

\* main, main.go:546: no manager was created.
StartupFails(valid) == valid = 0

\* main, main.go:528-533: NewProcessManager returns an error for command w,
\* which is logged, and the loop continues.
NewProcessManagerFails(w) ==
    /\ mainPc = "startup" /\ nextCmd = w
    /\ ~Constructible(cmds[w])
    /\ nextCmd' = w + 1
    /\ UNCHANGED << config, goos, cmds, attemptBudget, requestSlots, pc,
                    currentProc, failureCount, backoffDuration, tickerInterval,
                    tickPending, stats, attempts, launches, osProc, waitErr,
                    ctxDone, mainPc, wg, stopWaited, mainWaited, term,
                    liveAtCancel, attemptsAtCancel, tickAge, sinceAttempt,
                    snapshot, cmdText, built, statusCalls, cmdFile, loaded,
                    answer >>

\* main, main.go:528-543: the manager of command w is created and its Start
\* goroutine is started.
StartManager(w) ==
    /\ mainPc = "startup" /\ nextCmd = w
    /\ Constructible(cmds[w])
    /\ pc' = [pc EXCEPT ![w] = "new"]
    /\ wg' = wg + 1
    /\ nextCmd' = w + 1
    /\ UNCHANGED << config, goos, cmds, attemptBudget, requestSlots,
                    currentProc, failureCount, backoffDuration, tickerInterval,
                    tickPending, stats, attempts, launches, osProc, waitErr,
                    ctxDone, mainPc, stopWaited, mainWaited, term,
                    liveAtCancel, attemptsAtCancel, tickAge, sinceAttempt,
                    snapshot, cmdText, built, statusCalls, cmdFile, loaded,
                    answer >>

\* main, main.go:546-552: after the loop, os.Exit(1) when no manager was
\* created, otherwise main goes on to wait for a signal.
StartupDone ==
    /\ mainPc = "startup" /\ nextCmd > NumManagers
    /\ mainPc' = IF StartupFails(validProcesses) THEN "exit1" ELSE "run"
    /\ UNCHANGED << config, goos, cmds, attemptBudget, requestSlots, pc,
                    currentProc, failureCount, backoffDuration, tickerInterval,
                    tickPending, stats, attempts, launches, osProc, waitErr,
                    ctxDone, wg, stopWaited, mainWaited, term, liveAtCancel,
                    attemptsAtCancel, tickAge, sinceAttempt, nextCmd, snapshot,
                    cmdText, built, statusCalls, cmdFile, loaded, answer >>

\* -------------------------------------------------------------------- main
\* main.go:555-566: a signal arrives and the context is cancelled.
SignalReceived ==
    /\ mainPc = "run"
    /\ ctxDone' = TRUE
    /\ mainPc' = "cancelled"
    /\ liveAtCancel' = {w \in Managers :
                           \E p \in 1..MaxLaunches : osProc[w][p] = "live"}
    /\ attemptsAtCancel' = attempts
    /\ UNCHANGED << config, goos, cmds, attemptBudget, requestSlots, pc,
                    currentProc, failureCount, backoffDuration, tickerInterval,
                    tickPending, stats, attempts, launches, osProc, waitErr,
                    wg, stopWaited, mainWaited, term, tickAge, sinceAttempt,
                    nextCmd, snapshot, cmdText, built, statusCalls, cmdFile,
                    loaded, answer >>

\* main.go:568-573 with DashboardManager.Stop, dashboard.go:74-96: without a
\* dashboard nothing is done; server.Shutdown returns when no request is being
\* served or, at the latest, after its timeout.
DashboardStopped ==
    /\ mainPc = "cancelled"
    /\ \/ ~config.WebDashboard
       \/ \A r \in Requests : ~InFlight(r)
       \/ stopWaited >= DashboardStopTimeout
    /\ mainPc' = "wait"
    /\ UNCHANGED << config, goos, cmds, attemptBudget, requestSlots, pc,
                    currentProc, failureCount, backoffDuration, tickerInterval,
                    tickPending, stats, attempts, launches, osProc, waitErr,
                    ctxDone, wg, stopWaited, mainWaited, term, liveAtCancel,
                    attemptsAtCancel, tickAge, sinceAttempt, nextCmd, snapshot,
                    cmdText, built, statusCalls, cmdFile, loaded, answer >>

\* main.go:576-585, 590-591: wg.Wait returned, done is received, os.Exit.
AllProcessesShutdown ==
    /\ mainPc = "wait" /\ WaitGroupDone
    /\ mainPc' = "shutdownOk"
    /\ UNCHANGED << config, goos, cmds, attemptBudget, requestSlots, pc,
                    currentProc, failureCount, backoffDuration, tickerInterval,
                    tickPending, stats, attempts, launches, osProc, waitErr,
                    ctxDone, wg, stopWaited, mainWaited, term, liveAtCancel,
                    attemptsAtCancel, tickAge, sinceAttempt, nextCmd, snapshot,
                    cmdText, built, statusCalls, cmdFile, loaded, answer >>

\* main.go:586-591: the shutdown timeout is over, os.Exit.
ShutdownTimeoutExceeded ==
    /\ mainPc = "wait" /\ mainWaited >= shutdownTimeout
    /\ mainPc' = "shutdownTimeout"
    /\ UNCHANGED << config, goos, cmds, attemptBudget, requestSlots, pc,
                    currentProc, failureCount, backoffDuration, tickerInterval,
                    tickPending, stats, attempts, launches, osProc, waitErr,
                    ctxDone, wg, stopWaited, mainWaited, term, liveAtCancel,
                    attemptsAtCancel, tickAge, sinceAttempt, nextCmd, snapshot,
                    cmdText, built, statusCalls, cmdFile, loaded, answer >>

\* -------------------------------------------------------------------- time
\* The steps a goroutine takes without waiting for a timer, a process or an
\* outside event.
ManagerStep(w) ==
    \/ NewTicker(w) \/ MaxFailuresReturn(w) \/ LaunchAttempt(w)
    \/ CmdStartFails(w) \/ CmdStartSucceeds(w) \/ StoreCurrentProc(w)
    \/ UpdateStatsRunning(w) \/ CmdWait(w) \/ ClearCurrentProc(w)
    \/ UpdateStatsExit(w) \/ StartReturnedNil(w) \/ StartReturnedError(w)
    \/ ShutdownRequested(w) \/ gracefulShutdown(w) \/ ContextKill(w)

TerminatorStep(t) ==
    \/ sendTerminationSignal(t) \/ ForceKillAfterSignalError(t)
    \/ WaiterReports(t) \/ GracefulExitObserved(t) \/ GraceTimeout(t)
    \/ ForceKillPauseOver(t) \/ TerminateReturns(t)

MainStep == DashboardStopped \/ AllProcessesShutdown \/ ShutdownTimeoutExceeded

Immediate ==
    \/ \E w \in Managers : ManagerStep(w)
    \/ \E t \in Terminators : TerminatorStep(t)
    \/ MainStep

\* One second passes: every running timer advances.
Advance ==
    /\ Alive
    /\ ~ENABLED Immediate
    /\ \/ \E t \in Terminators : term[t].pc \in {"wait", "sleep"}
       \/ mainPc \in {"cancelled", "wait"}
    /\ term' = [t \in Terminators |->
          IF term[t].pc = "wait"
          THEN [term[t] EXCEPT !.waited = Min(@ + 1, gracePeriod(term[t].target))]
          ELSE IF term[t].pc = "sleep"
          THEN [term[t] EXCEPT !.slept = Min(@ + 1, ForceKillPause)]
          ELSE term[t]]
    /\ stopWaited' = IF mainPc = "cancelled"
                     THEN Min(stopWaited + 1, DashboardStopTimeout) ELSE stopWaited
    /\ mainWaited' = IF mainPc = "wait"
                     THEN Min(mainWaited + 1, shutdownTimeout) ELSE mainWaited
    /\ UNCHANGED << config, goos, cmds, attemptBudget, requestSlots, pc,
                    currentProc, failureCount, backoffDuration, tickerInterval,
                    tickPending, stats, attempts, launches, osProc, waitErr,
                    ctxDone, mainPc, wg, liveAtCancel, attemptsAtCancel,
                    tickAge, sinceAttempt, nextCmd, snapshot, cmdText, built,
                    statusCalls, cmdFile, loaded, answer >>

\* ------------------------------------------------------------ specification
Configs ==
    [ MaxRetries : {0, RetryCeiling}, BackoffEnabled : BOOLEAN,
      RestartDelay : {0, DefaultRestartInterval},
      GracePeriod : {0, 1, LongGrace}, WebDashboard : BOOLEAN ]

Commands == [ launch : {"always", "never", "sometimes"}, powershell : BOOLEAN ]

\* NewProcessManager has not been called.
NotBuilt == [ state |-> "none" ]

\* No UpdateStats call has been made.
NoStatusCalls ==
    [w \in Managers |->
        [ starting |-> 0, failed |-> 0, external |-> 0,
          lastStatus |-> StatusStopped, lastPid |-> 0 ]]

\* loadCommands has not been called.
NotLoaded == [ state |-> "none" ]

\* The dashboard has answered no request.
NoAnswer == [ handler |-> "none" ]

\* No file is being loaded and no request has been answered.
NoInput ==
    /\ cmdFile = << >>
    /\ loaded = NotLoaded
    /\ answer = NoAnswer

NoCalls ==
    /\ cmdText = << >>
    /\ built = NotBuilt
    /\ statusCalls = NoStatusCalls
    /\ NoInput

\* NewProcessManager, main.go:96-117, and main, main.go:527-544: the state
\* after main has started the goroutine of every manager in started.  A
\* manager outside started stands for an id that is not in the registry; the
\* requests in slots are the ones the dashboard receives.
BaseInit(cfgs, oses, commands, started, budget, slots) ==
    /\ config \in cfgs
    /\ goos \in oses
    /\ cmds \in { f \in [Managers -> commands] :
                     \A w \in Managers \ started :
                        f[w] = CHOOSE c \in commands : TRUE }
    /\ attemptBudget = budget
    /\ requestSlots = slots
    /\ pc = [w \in Managers |-> IF w \in started THEN "new" ELSE "absent"]
    /\ currentProc = [w \in Managers |-> 0]
    /\ failureCount = [w \in Managers |-> 0]
    /\ backoffDuration = [w \in Managers |-> config.RestartDelay]
    /\ tickerInterval = [w \in Managers |-> 0]
    /\ tickPending = [w \in Managers |-> FALSE]
    /\ stats = [w \in Managers |->
                  [ Status |-> StatusStopped, PID |-> 0, FailureCount |-> 0,
                    HasLastFailure |-> FALSE, RestartCount |-> 0 ]]
    /\ attempts = [w \in Managers |-> 0]
    /\ launches = [w \in Managers |-> 0]
    /\ osProc = [w \in Managers |-> [p \in 1..MaxLaunches |-> "unborn"]]
    /\ waitErr = [w \in Managers |-> FALSE]
    /\ ctxDone = FALSE
    /\ liveAtCancel = {}
    /\ attemptsAtCancel = [w \in Managers |-> 0]
    /\ tickAge = [w \in Managers |-> 0]
    /\ sinceAttempt = [w \in Managers |-> 0]
    /\ nextCmd = NumManagers + 1
    /\ mainPc = "run"
    /\ wg = Cardinality(started)
    /\ stopWaited = 0
    /\ mainWaited = 0
    /\ term = [t \in Terminators |-> IdleTerm]
    /\ snapshot = NoSnapshot

\* The state of BaseInit with no call of NewProcessManager or UpdateStats
\* under examination.
InitWith(cfgs, oses, commands, started, budget, slots) ==
    /\ BaseInit(cfgs, oses, commands, started, budget, slots)
    /\ NoCalls

\* One script with the dashboard enabled, a retry ceiling and no grace.
CoverInit ==
    InitWith({c \in Configs :
                 /\ c.MaxRetries = RetryCeiling /\ c.BackoffEnabled
                 /\ c.RestartDelay > 0 /\ c.GracePeriod = 0 /\ c.WebDashboard},
             {"unix"},
             {c \in Commands : c.launch = "sometimes" /\ ~c.powershell},
             {1}, RetryCeiling, {NumManagers + 1})

\* One script under every retry, backoff and restart delay setting.
LoopInit ==
    InitWith({c \in Configs : c.GracePeriod \in {0, 1} /\ ~c.WebDashboard},
             {"unix"},
             {c \in Commands : ~c.powershell},
             {1}, MaxAttempts, {})

\* One script that may fail to launch MaxChainAttempts times in a row.
ChainInit ==
    InitWith({c \in Configs :
                 /\ c.MaxRetries = 0 /\ c.BackoffEnabled /\ c.RestartDelay > 0
                 /\ c.GracePeriod = 1 /\ ~c.WebDashboard},
             {"unix"},
             {c \in Commands : c.launch = "sometimes" /\ ~c.powershell},
             {1}, MaxChainAttempts, {})

\* One script restarted from the dashboard under the longest grace period, on
\* both platforms, PowerShell command (with its own grace period) or not.
TermInit ==
    InitWith({c \in Configs :
                 /\ c.MaxRetries = 0 /\ c.BackoffEnabled /\ c.RestartDelay > 0
                 /\ c.GracePeriod = LongGrace /\ c.WebDashboard},
             {"unix", "windows"},
             {c \in Commands : c.launch = "always"},
             {1}, ShortAttempts, Requests)

\* Two scripts shut down under the longest grace period.
PairInit ==
    InitWith({c \in Configs :
                 /\ c.MaxRetries = 0 /\ c.BackoffEnabled /\ c.RestartDelay > 0
                 /\ c.GracePeriod = LongGrace /\ ~c.WebDashboard},
             {"unix"},
             {c \in Commands : c.launch = "always" /\ ~c.powershell},
             {1, 2}, ShortAttempts, {})

\* One script that always launches, restarted from the dashboard, on both
\* platforms, with a budget that lets every process but the last be replaced.
RestartInit ==
    InitWith({c \in Configs :
                 /\ c.MaxRetries = 0 /\ c.BackoffEnabled /\ c.RestartDelay > 0
                 /\ c.GracePeriod = 1 /\ c.WebDashboard},
             {"unix", "windows"},
             {c \in Commands : c.launch = "always"},
             {1}, MaxLaunches, {NumManagers + 1})

\* Two scripts with a retry ceiling, under both restart delays, that launch
\* always or never.
SiblingInit ==
    InitWith({c \in Configs :
                 /\ c.MaxRetries = RetryCeiling /\ c.BackoffEnabled
                 /\ c.GracePeriod = 0 /\ ~c.WebDashboard},
             {"unix"},
             {c \in Commands : c.launch # "sometimes" /\ ~c.powershell},
             {1, 2}, RetryCeiling, {})

\* One script, with and without retry ceiling and backoff, whose launches
\* succeed or fail, with the ticker kept in time.
TimedInit ==
    InitWith({c \in Configs :
                 c.RestartDelay > 0 /\ c.GracePeriod = 0 /\ ~c.WebDashboard},
             {"unix"},
             {c \in Commands : ~c.powershell},
             {1}, MaxAttempts, {})

\* The commands main may be given, one of them without any token.
StartupCommands == Commands \cup [ launch : {"empty"}, powershell : {FALSE} ]

\* main before the loop that creates the managers (main.go:526), one command
\* per manager, no manager created yet.
StartupInit ==
    /\ config \in {c \in Configs : c.RestartDelay > 0 /\ ~c.WebDashboard}
    /\ goos = "unix"
    /\ cmds \in [Managers -> {c \in StartupCommands : ~c.powershell}]
    /\ attemptBudget = ShortAttempts
    /\ requestSlots = {}
    /\ pc = [w \in Managers |-> "absent"]
    /\ currentProc = [w \in Managers |-> 0]
    /\ failureCount = [w \in Managers |-> 0]
    /\ backoffDuration = [w \in Managers |-> config.RestartDelay]
    /\ tickerInterval = [w \in Managers |-> 0]
    /\ tickPending = [w \in Managers |-> FALSE]
    /\ stats = [w \in Managers |->
                  [ Status |-> StatusStopped, PID |-> 0, FailureCount |-> 0,
                    HasLastFailure |-> FALSE, RestartCount |-> 0 ]]
    /\ attempts = [w \in Managers |-> 0]
    /\ launches = [w \in Managers |-> 0]
    /\ osProc = [w \in Managers |-> [p \in 1..MaxLaunches |-> "unborn"]]
    /\ waitErr = [w \in Managers |-> FALSE]
    /\ ctxDone = FALSE
    /\ liveAtCancel = {}
    /\ attemptsAtCancel = [w \in Managers |-> 0]
    /\ tickAge = [w \in Managers |-> 0]
    /\ sinceAttempt = [w \in Managers |-> 0]
    /\ nextCmd = 1
    /\ mainPc = "startup"
    /\ wg = 0
    /\ stopWaited = 0
    /\ mainWaited = 0
    /\ term = [t \in Terminators |-> IdleTerm]
    /\ snapshot = NoSnapshot
    /\ NoCalls

\* One PowerShell script restarted from the dashboard under the short grace
\* periods, on both platforms.
ShellInit ==
    InitWith({c \in Configs :
                 /\ c.MaxRetries = 0 /\ c.BackoffEnabled /\ c.RestartDelay > 0
                 /\ c.GracePeriod \in {0, 1} /\ c.WebDashboard},
             {"unix", "windows"},
             {c \in Commands : c.launch = "always" /\ c.powershell},
             {1}, ShortAttempts, {NumManagers + 1})

Init == CoverInit \/ LoopInit

Next ==
    \/ \E w \in Managers :
         \/ NewTicker(w) \/ MaxFailuresReturn(w) \/ LaunchAttempt(w)
         \/ CmdStartFails(w) \/ CmdStartSucceeds(w) \/ StoreCurrentProc(w)
         \/ UpdateStatsRunning(w) \/ CmdWait(w) \/ ClearCurrentProc(w)
         \/ UpdateStatsExit(w) \/ StartReturnedNil(w) \/ StartReturnedError(w)
         \/ ShutdownRequested(w) \/ gracefulShutdown(w) \/ ContextKill(w)
         \/ TickerFires(w) \/ ProcessExits(w)
    \/ \E r \in Requests, w \in Managers : handleRestart(r, w)
    \/ \E t \in Terminators :
         \/ sendTerminationSignal(t) \/ ForceKillAfterSignalError(t)
         \/ WaiterReports(t) \/ GracefulExitObserved(t) \/ GraceTimeout(t)
         \/ ForceKillPauseOver(t) \/ TerminateReturns(t)
    \/ SignalReceived \/ DashboardStopped \/ AllProcessesShutdown
    \/ ShutdownTimeoutExceeded
    \/ Advance

Spec == Init /\ [][Next]_vars

ChainSpec == (CoverInit \/ ChainInit) /\ [][Next]_vars

TermSpec == (CoverInit \/ TermInit) /\ [][Next]_vars

SiblingSpec == (CoverInit \/ SiblingInit) /\ [][Next]_vars

ShellSpec == (CoverInit \/ ShellInit) /\ [][Next]_vars

\* The methods and ids of the requests the dashboard receives: the id of
\* every manager, registered or not, an id no manager has, the empty id,
\* ids with other and with refused characters, and ids of MaxIdLength
\* characters and of one more.
Methods == {"POST", "GET"}

RequestIds ==
    { ProcessID(w) : w \in 1..(NumManagers + 1) }
    \cup { Id(0, << >>, 0), Id(0, << "x" >>, 0), Id(0, << "x", ".", "y" >>, 0),
           Id(1, << ".", "." >>, 0),
           Id(1, << >>, MaxIdLength - Len(IdPrefix) - 1),
           Id(1, << >>, MaxIdLength - Len(IdPrefix)) }

\* One script that launches, with a grace period and the dashboard.
DashInit ==
    InitWith({c \in Configs :
                 /\ c.MaxRetries = 0 /\ c.BackoffEnabled /\ c.RestartDelay > 0
                 /\ c.GracePeriod = 1 /\ c.WebDashboard},
             {"unix"},
             {c \in Commands : c.launch = "always" /\ ~c.powershell},
             {1}, ShortAttempts, {NumManagers + 1})

\* One manager and its process, and a dashboard that receives requests of
\* every kind.
DashNext ==
    \/ \E w \in Managers :
         \/ NewTicker(w) \/ LaunchAttempt(w) \/ CmdStartSucceeds(w)
         \/ StoreCurrentProc(w) \/ UpdateStatsRunning(w) \/ CmdWait(w)
         \/ ClearCurrentProc(w) \/ UpdateStatsExit(w) \/ StartReturnedNil(w)
         \/ TickerFires(w) \/ ProcessExits(w)
    \/ \E r \in Requests, w \in Managers : handleRestart(r, w)
    \/ \E t \in Terminators :
         \/ sendTerminationSignal(t) \/ ForceKillAfterSignalError(t)
         \/ WaiterReports(t) \/ GracefulExitObserved(t) \/ GraceTimeout(t)
         \/ ForceKillPauseOver(t) \/ TerminateReturns(t)
    \/ \E method \in Methods, id \in RequestIds :
         handleRestartRefused(method, id)
    \/ \E id \in RequestIds : handleProcess("GET", id)
    \/ Advance

DashSpec == DashInit /\ [][DashNext]_vars

\* The loop of Start with the period of its ticker kept: a tick comes when
\* the interval has passed, not at any time as TickerFires has it.
TimedNext ==
    \/ \E w \in Managers :
         \/ NewTicker(w) \/ MaxFailuresReturn(w) \/ LaunchAttempt(w)
         \/ CmdStartFails(w) \/ CmdStartSucceeds(w) \/ StoreCurrentProc(w)
         \/ UpdateStatsRunning(w) \/ CmdWait(w) \/ ClearCurrentProc(w)
         \/ UpdateStatsExit(w) \/ StartReturnedNil(w) \/ StartReturnedError(w)
         \/ TickerFiresOnTime(w) \/ ProcessExits(w)
    \/ TimePasses

TimedSpec == TimedInit /\ [][TimedNext]_vars

\* The loop of Start with a caller of GetStats beside it.
StatsNext ==
    \E w \in Managers :
       \/ NewTicker(w) \/ MaxFailuresReturn(w) \/ LaunchAttempt(w)
       \/ CmdStartFails(w) \/ CmdStartSucceeds(w) \/ StoreCurrentProc(w)
       \/ UpdateStatsRunning(w) \/ CmdWait(w) \/ ClearCurrentProc(w)
       \/ UpdateStatsExit(w) \/ StartReturnedNil(w) \/ StartReturnedError(w)
       \/ TickerFires(w) \/ ProcessExits(w)
       \/ GetStats(w)

StatsSpec == LoopInit /\ [][StatsNext]_vars

\* The loop of one manager, its process, and UpdateStats calls on the manager
\* from outside the loop.
UpdateNext ==
    \E w \in Managers :
       \/ NewTicker(w) \/ MaxFailuresReturn(w) \/ LaunchAttempt(w)
       \/ CmdStartFails(w) \/ CmdStartSucceeds(w) \/ StoreCurrentProc(w)
       \/ UpdateStatsRunning(w) \/ CmdWait(w) \/ ClearCurrentProc(w)
       \/ UpdateStatsExit(w) \/ StartReturnedNil(w) \/ StartReturnedError(w)
       \/ TickerFires(w) \/ ProcessExits(w)
       \/ \E status \in Statuses, pid \in CallerPids :
             UpdateStatsCalled(w, status, pid)

UpdateSpec == LoopInit /\ [][UpdateNext]_vars

\* The startup of main, with the managers it has started already taking
\* their first steps.
StartupNext ==
    \/ \E w \in Managers :
         \/ NewProcessManagerFails(w) \/ StartManager(w)
         \/ NewTicker(w) \/ TickerFires(w) \/ LaunchAttempt(w)
    \/ StartupDone

StartupSpec == StartupInit /\ [][StartupNext]_vars

\* Every goroutine that can take a step eventually takes one, the select of
\* Start (main.go:170-191) picks a case that stays ready, and time passes.
Fairness ==
    /\ \A w \in Managers : WF_vars(ManagerStep(w)) /\ SF_vars(ShutdownRequested(w))
    /\ \A t \in Terminators : WF_vars(TerminatorStep(t))
    /\ WF_vars(MainStep)
    /\ WF_vars(Advance)

FairSpec == (CoverInit \/ PairInit) /\ [][Next]_vars /\ Fairness

\* The ticker of Start (main.go:166) keeps delivering ticks.
TickerFairness == \A w \in Managers : WF_vars(TickerFires(w))

RestartSpec ==
    (CoverInit \/ RestartInit) /\ [][Next]_vars /\ Fairness /\ TickerFairness

\* ------------------------------------------------------ NewProcessManager
\* The characters a command string is made of: two that are not white space
\* and two that are.
Chars == {"a", "b", " ", "\t"}

\* unicode.IsSpace, as strings.Fields (main.go:97) applies it.
IsSpace(c) == c \in {" ", "\t"}

\* strings.Fields, main.go:97: one pass over the string; fieldStart is the
\* index the field being read started at, 0 between fields.
RECURSIVE FieldsScan(_, _, _, _)
FieldsScan(s, i, fieldStart, a) ==
    IF i > Len(s)
    THEN IF fieldStart > 0 THEN Append(a, SubSeq(s, fieldStart, Len(s)))
         ELSE a
    ELSE IF IsSpace(s[i])
         THEN FieldsScan(s, i + 1, 0,
                         IF fieldStart > 0
                         THEN Append(a, SubSeq(s, fieldStart, i - 1))
                         ELSE a)
         ELSE FieldsScan(s, i + 1, IF fieldStart > 0 THEN fieldStart ELSE i, a)

Fields(s) == FieldsScan(s, 1, 0, << >>)

\* A construction that keeps the executable among the arguments.
NewProcessManagerKeepsArgv0(cmd, cfg) ==
    LET parts == Fields(cmd)
    IN  IF Len(parts) = 0 THEN [ state |-> "error" ]
        ELSE [ state |-> "ok", cmd |-> cmd, command |-> parts[1],
               args |-> parts, shutdownGrace |-> cfg.GracePeriod,
               failureCount |-> 0, backoffDuration |-> cfg.RestartDelay,
               status |-> StatusStopped ]

\* NewProcessManager, main.go:96-117: the error of line 99, or the manager
\* of lines 102-116.
NewProcessManager(cmd, cfg) ==
    LET parts == Fields(cmd)
    IN  IF Len(parts) = 0 THEN [ state |-> "error" ]
        ELSE [ state |-> "ok", cmd |-> cmd, command |-> parts[1],
               args |-> Tail(parts), shutdownGrace |-> cfg.GracePeriod,
               failureCount |-> 0, backoffDuration |-> cfg.RestartDelay,
               status |-> StatusStopped ]

\* A call of NewProcessManager with the command string cmdText.
NewProcessManagerCalled ==
    /\ built = NotBuilt
    /\ built' = NewProcessManager(cmdText, config)
    /\ UNCHANGED << config, goos, cmds, attemptBudget, requestSlots, pc,
                    currentProc, failureCount, backoffDuration, tickerInterval,
                    tickPending, stats, attempts, launches, osProc, waitErr,
                    ctxDone, mainPc, wg, stopWaited, mainWaited, term,
                    liveAtCancel, attemptsAtCancel, tickAge, sinceAttempt,
                    nextCmd, snapshot, cmdText, statusCalls, cmdFile, loaded,
                    answer >>

\* Every command string of at most MaxTextLen characters.
Texts == UNION { [1..n -> Chars] : n \in 0..MaxTextLen }

\* No manager started yet, and a command string to construct one from.
BuildInit ==
    /\ BaseInit({c \in Configs :
                    /\ c.MaxRetries = 0 /\ ~c.BackoffEnabled
                    /\ c.GracePeriod = 1 /\ ~c.WebDashboard},
                {"unix"},
                {c \in Commands : c.launch = "always" /\ ~c.powershell},
                {}, ShortAttempts, {})
    /\ cmdText \in Texts
    /\ built = NotBuilt
    /\ statusCalls = NoStatusCalls
    /\ NoInput

BuildNext == NewProcessManagerCalled

BuildSpec == BuildInit /\ [][BuildNext]_vars

\* ------------------------------------------------------------ loadCommands
\* A line of the file is lead spaces, then the characters of body, then
\* filler times the letter a; a command is a line with lead 0.
Line(lead, body, filler) == [ lead |-> lead, body |-> body, filler |-> filler ]

RawLen(l) == l.lead + Len(l.body) + l.filler

\* scanner.Scan, main.go:615: a line that does not fit the buffer of the
\* Scanner ends the scan, and scanner.Err (main.go:633) reports it.
ScanTooLong(l) == RawLen(l) >= MaxScanTokenSize

RECURSIVE TrimLeft(_)
TrimLeft(s) ==
    IF s # << >> /\ IsSpace(Head(s)) THEN TrimLeft(Tail(s)) ELSE s

RECURSIVE TrimRight(_)
TrimRight(s) ==
    IF s # << >> /\ IsSpace(s[Len(s)])
    THEN TrimRight(SubSeq(s, 1, Len(s) - 1))
    ELSE s

\* A trim that leaves the white space at the end of the line.
TrimSpaceLeftOnly(l) == Line(0, TrimLeft(l.body), l.filler)

\* strings.TrimSpace, main.go:617.
TrimSpace(l) ==
    Line(0, IF l.filler > 0 THEN TrimLeft(l.body)
            ELSE TrimRight(TrimLeft(l.body)),
         l.filler)

EmptyString(c) == c.lead = 0 /\ c.body = << >> /\ c.filler = 0

\* strings.HasPrefix(cmd, "#"), main.go:620.
HasPrefixHash(c) == c.lead = 0 /\ c.body # << >> /\ c.body[1] = "#"

\* parts[0] of strings.Fields(cmd), main.go:651-657, without the letters a
\* of the filler, which no check of the base command looks for.
BaseCommand(c) ==
    LET parts == Fields(c.body) IN IF parts = << >> THEN << >> ELSE parts[1]

Contains(s, sub) ==
    \E i \in 1..(Len(s) - Len(sub) + 1) :
        SubSeq(s, i, i + Len(sub) - 1) = sub

\* filepath.IsAbs, main.go:668: a leading slash on Unix; on Windows a path
\* without a volume name is not absolute.
IsAbs(os, path) == os = "unix" /\ path # << >> /\ path[1] = "/"

\* The characters of the regular expression of main.go:660; "backtick"
\* stands for the character \x60.
DangerousChars == {";", "&", "|", ">", "<", "$", "backtick"}

\* validateCommand, main.go:644-684, returns nil.
ValidCommand(os, c) ==
    LET command == BaseCommand(c)
    IN  /\ ~EmptyString(TrimSpace(c))
        /\ \A i \in 1..Len(c.body) : c.body[i] \notin DangerousChars
        /\ (Contains(command, << "/" >>) /\ ~IsAbs(os, command)) =>
               ~Contains(command, << ".", "." >>)
        /\ RawLen(c) <= MaxCommandLength

\* loadCommands, main.go:615-636: the loop over the lines from line i on,
\* with the commands collected so far.
RECURSIVE LoadFrom(_, _, _, _)
LoadFrom(os, file, i, commands) ==
    IF i > Len(file) THEN [ state |-> "ok", commands |-> commands ]
    ELSE IF ScanTooLong(file[i])
         THEN [ state |-> "error", commands |-> << >> ]
         ELSE LET cmd == TrimSpace(file[i])
              IN  IF EmptyString(cmd) \/ HasPrefixHash(cmd)
                  THEN LoadFrom(os, file, i + 1, commands)
                  ELSE IF ~ValidCommand(os, cmd)
                       THEN [ state |-> "error", commands |-> << >> ]
                       ELSE LoadFrom(os, file, i + 1, Append(commands, cmd))

\* loadCommands, main.go:598-641, for a file that can be opened.
loadCommands(os, file) == LoadFrom(os, file, 1, << >>)

\* A call of loadCommands with the file cmdFile.
loadCommandsCalled ==
    /\ loaded = NotLoaded
    /\ loaded' = loadCommands(goos, cmdFile)
    /\ UNCHANGED << config, goos, cmds, attemptBudget, requestSlots, pc,
                    currentProc, failureCount, backoffDuration,
                    tickerInterval, tickPending, stats, attempts, launches,
                    osProc, waitErr, ctxDone, mainPc, wg, stopWaited,
                    mainWaited, term, liveAtCancel, attemptsAtCancel,
                    tickAge, sinceAttempt, nextCmd, snapshot, cmdText, built,
                    statusCalls, cmdFile, answer >>

\* Lines of every kind: empty, blank, comments, commands with and without
\* arguments, surrounding spaces, dangerous characters, relative and
\* absolute paths, and lengths on both sides of the two limits.
FileLines ==
    { Line(0, body, 0) :
        body \in { << >>, << " ", "\t" >>, << "a" >>, << "a", " ", "b" >>,
                   << "#", "a" >>, << "\t", "#" >>, << "a", "#" >>,
                   << "a", ";" >>, << ".", "/", "a" >>,
                   << ".", ".", "/", "a" >>, << "/", ".", "." >> } }
    \cup { Line(1, << "b", " " >>, 0), Line(1, << "#" >>, 0),
           Line(0, << "b" >>, MaxCommandLength - 1),
           Line(0, << "b" >>, MaxCommandLength),
           Line(0, << "#" >>, MaxScanTokenSize - 2),
           Line(0, << "#" >>, MaxScanTokenSize - 1),
           Line(MaxScanTokenSize, << >>, 0) }

Files == UNION { [1..n -> FileLines] : n \in 0..MaxLines }

\* No manager yet, and a file to load the commands from.
LoadInit ==
    /\ BaseInit({c \in Configs :
                    /\ c.MaxRetries = 0 /\ ~c.BackoffEnabled
                    /\ c.RestartDelay > 0
                    /\ c.GracePeriod = 1 /\ ~c.WebDashboard},
                {"unix", "windows"},
                {c \in Commands : c.launch = "always" /\ ~c.powershell},
                {}, ShortAttempts, {})
    /\ cmdText = << >>
    /\ built = NotBuilt
    /\ statusCalls = NoStatusCalls
    /\ cmdFile \in Files
    /\ loaded = NotLoaded
    /\ answer = NoAnswer

LoadNext == loadCommandsCalled

LoadSpec == LoadInit /\ [][LoadNext]_vars

\* ------------------------------------------------------------------ claims
Pids == 1..MaxLaunches

\* C1: a manager never has more than one live process, and it begins a launch
\* only when the exit of every process it launched before has been collected.
C1_AtMostOneLiveProcess ==
    \A w \in Managers :
        /\ Cardinality({p \in Pids : osProc[w][p] = "live"}) <= 1
        /\ pc[w] = "start" =>
              \A p \in Pids : osProc[w][p] \in {"unborn", "reaped0", "reaped1"}

\* A manager launches again after a process of its own has exited.
C1_Relaunch == \E w \in Managers : pc[w] = "start" /\ launches[w] >= 1

\* The backoff that 1 s doubled e times gives, capped at MaxBackoffDuration.
CappedDoubling(delay, e) ==
    IF e >= 9 THEN MaxBackoffDuration
    ELSE Min(MaxBackoffDuration, delay * Pow2(e))

C3_SuccessResetsFailureState ==
    [][\A w \in Managers :
          pc[w] = "returned" /\ pc'[w] # "returned" =>
              /\ failureCount'[w] = 0
              /\ backoffDuration'[w] = config.RestartDelay
              /\ tickerInterval'[w] = config.RestartDelay]_vars

\* Two launch failures in a row, then a successful launch was reset.
C3_ResetAfterFailures ==
    \E w \in Managers :
        /\ pc[w] = "select" /\ failureCount[w] = 0 /\ launches[w] >= 1
        /\ attempts[w] >= launches[w] + 2
        /\ backoffDuration[w] = config.RestartDelay

\* C4: with a retry ceiling N > 0 a command that never launches is attempted
\* at most N times and the loop is left for good only after exactly N
\* attempts, with the launch failure count at N; with a ceiling of 0 the loop
\* is never left for good because of failures.
C4_MaxRetriesBoundsAttempts ==
    \A w \in Managers :
        /\ config.MaxRetries = 0 => pc[w] # "fatal"
        /\ pc[w] = "fatal" => failureCount[w] = config.MaxRetries
        /\ (config.MaxRetries > 0 /\ cmds[w].launch = "never") =>
              /\ attempts[w] <= config.MaxRetries
              /\ pc[w] = "fatal" => attempts[w] = config.MaxRetries

\* A command that never launches has exhausted its retries.
C4_RetriesExhausted ==
    \E w \in Managers :
        /\ pc[w] = "fatal" /\ cmds[w].launch = "never"
        /\ attempts[w] = RetryCeiling /\ attemptBudget > RetryCeiling

\* C5: the exit failure counter of the statistics goes up, by one, only when a
\* launched process has exited with a non-clean result, and never together
\* with the launch failure count; the launch failure count goes up only after
\* a failed cmd.Start, and never together with the statistics.
C5_CountersIndependent ==
    [][\A w \in Managers :
          /\ stats'[w].FailureCount # stats[w].FailureCount =>
                /\ stats'[w].FailureCount = stats[w].FailureCount + 1
                /\ pc[w] = "updExit"
                /\ osProc[w][LastPid(w)] = "reaped1"
                /\ failureCount'[w] = failureCount[w]
          /\ failureCount'[w] > failureCount[w] =>
                /\ pc[w] = "failed"
                /\ stats'[w] = stats[w]]_vars

\* C6: a manager that has left its loop after the shutdown notice has no
\* process handle, is not recorded as running and has no live process.
C6_ShutdownLeavesNoProcess ==
    \A w \in Managers :
        (ctxDone /\ pc[w] \in {"stopped", "fatal"}) =>
            /\ currentProc[w] = 0
            /\ stats[w].Status # StatusRunning
            /\ \A p \in Pids : osProc[w][p] # "live"

\* A manager whose process was running when the notice fired has left its loop.
C6_StoppedAfterLiveProcess ==
    \E w \in liveAtCancel : pc[w] = "stopped" /\ launches[w] >= 1

\* Seconds since the context was cancelled.
Elapsed == stopWaited + mainWaited

\* C7: after the shutdown notice every manager leaves its loop (or the
\* program has exited first), and while a manager is still in its loop no
\* more than the grace period plus the pause after a force kill has passed
\* since the notice.
C7_WorkersTerminate ==
    /\ [](\A w \in Managers :
             (ctxDone /\ Alive /\ Looping(w)) =>
                 Elapsed <= config.GracePeriod + ForceKillPause)
    /\ (ctxDone ~> ((\A w \in Managers : ~Looping(w)) \/ ~Alive))

\* Two managers, one whose process was running when the notice fired and one
\* without a process, have both left their loops.
C7_AllStopped ==
    /\ ctxDone /\ Alive
    /\ \A w \in {1, 2} : pc[w] = "stopped"
    /\ liveAtCancel = {1}

ExpectedGrace(w) ==
    IF cmds[w].powershell THEN PowerShellGrace ELSE config.GracePeriod

\* C9: in a termination sequence whose graceful-stop request was sent without
\* error, the process is force-killed at most once and not before the grace
\* period has elapsed; the sequence force-kills exactly once when the exit
\* of the process is not reported to it, and not at all when the exit is
\* reported before the grace period has elapsed.
C9_ForceKillOnceAfterGrace ==
    \A t \in Terminators :
        term[t].requested =>
            /\ term[t].kills <= 1
            /\ term[t].kills = 1 =>
                  /\ term[t].killedAt >= ExpectedGrace(term[t].target)
                  /\ term[t].pc \in {"sleep", "return"}
            /\ term[t].pc \in {"sleep", "return"} =>
                  \/ term[t].kills = 1
                  \/ /\ term[t].kills = 0 /\ term[t].done
                     /\ term[t].pc = "return"
            /\ (term[t].done /\ term[t].waited < ExpectedGrace(term[t].target)) =>
                  term[t].kills = 0

\* A process that ignored the graceful-stop request has been force-killed
\* after a grace period of more than a second.
C9_KilledAfterGrace ==
    \E t \in Terminators :
        /\ term[t].requested /\ term[t].pc = "return" /\ term[t].kills = 1
        /\ term[t].killedAt > 1 /\ ~term[t].done

\* C10 as stated: after the notice a worker leaves its loop only through
\* gracefulShutdown, which it runs once, after observing the notice once.
C10_OnlyGracefulExit ==
    [][\A w \in Managers :
          /\ (pc'[w] = "shutdown" /\ pc[w] # "shutdown") =>
                pc[w] = "select" /\ ctxDone
          /\ pc[w] \in {"shutdown", "terminating"} =>
                pc'[w] \in {"shutdown", "terminating", "stopped"}
          /\ (pc'[w] = "stopped" /\ pc[w] # "stopped") =>
                pc[w] \in {"shutdown", "terminating"}
          /\ (ctxDone /\ Looping(w) /\ pc'[w] \in {"stopped", "fatal"}) =>
                pc'[w] = "stopped"]_vars

\* C10: a worker enters gracefulShutdown only from its select and only after
\* the notice, never returns from it to the loop, and stops only through it;
\* after the notice a worker leaves its loop through gracefulShutdown or,
\* when the tick case of the select was taken, through the retry ceiling.
C10_GracefulOrCeilingExit ==
    [][\A w \in Managers :
          /\ (pc'[w] = "shutdown" /\ pc[w] # "shutdown") =>
                pc[w] = "select" /\ ctxDone
          /\ pc[w] \in {"shutdown", "terminating"} =>
                pc'[w] \in {"shutdown", "terminating", "stopped"}
          /\ (pc'[w] = "stopped" /\ pc[w] # "stopped") =>
                pc[w] \in {"shutdown", "terminating"}
          /\ (ctxDone /\ Looping(w) /\ pc'[w] \in {"stopped", "fatal"}) =>
                \/ pc'[w] = "stopped"
                \/ /\ pc[w] = "select" /\ tickPending[w]
                   /\ config.MaxRetries > 0
                   /\ failureCount[w] >= config.MaxRetries]_vars

\* A worker that was backing off after a launch failure has run
\* gracefulShutdown and stopped.
C10_StoppedWhileBackingOff ==
    \E w \in Managers :
        ctxDone /\ pc[w] = "stopped" /\ failureCount[w] > 0

\* C11: once the context is cancelled no manager begins another launch
\* attempt (no call of startProcess starts), so that neither the launch
\* failure count nor the statistics change in an attempt begun after the
\* cancellation.
C11_NoLaunchAfterCancel ==
    [][\A w \in Managers :
          ctxDone =>
              /\ attempts'[w] = attempts[w]
              /\ attempts[w] > attemptsAtCancel[w] =>
                    /\ failureCount'[w] = failureCount[w]
                    /\ stats'[w] = stats[w]]_vars

\* The status transitions the worker's lifecycle allows.
AllowedTransitions ==
    { <<StatusStopped, StatusStarting>>, <<StatusFailed, StatusStarting>>,
      <<StatusStarting, StatusRunning>>, <<StatusStarting, StatusFailed>>,
      <<StatusRunning, StatusStopped>>, <<StatusRunning, StatusFailed>> }

\* C12: whenever the statistics of a manager are updated, the status moves
\* along Stopped|Failed -> Starting, Starting -> Running, Starting -> Failed,
\* Running -> Stopped or Running -> Failed; Running is entered only from
\* Starting.
C12_StatusTransitions ==
    [][\A w \in Managers :
          stats'[w] # stats[w] =>
              <<stats[w].Status, stats'[w].Status>> \in AllowedTransitions]_vars

\* C13: when cmd.Start has failed, the step that handles the failure leaves
\* the status of the manager at Failed and the launch failure count one
\* higher.
C13_LaunchFailureRecorded ==
    [][\A w \in Managers :
          (pc[w] = "failed" /\ pc'[w] # "failed") =>
              /\ failureCount'[w] = failureCount[w] + 1
              /\ stats'[w].Status = StatusFailed]_vars

\* C14: the restart count of the statistics equals the number of launch
\* attempts (calls of startProcess) the manager has made.
C14_RestartCountIsAttempts ==
    \A w \in Managers : stats[w].RestartCount = attempts[w]

\* C15: no manager has a live process of its own while its launch failure
\* count is non-zero (the reset would take effect at the successful launch,
\* before the process exits).
C15_ResetAtLaunch ==
    \A w \in Managers :
        \A p \in Pids : ProcState(w, p) = "live" => failureCount[w] = 0

\* C16: with max-retries 0, backoff enabled and a restart delay of 1 s, from
\* one consecutive launch failure to the next the backoff duration does not
\* decrease, does not exceed 300 s and, once 300 s, stays 300 s.
C16_BackoffClimbsToCap ==
    [][\A w \in Managers :
          ( /\ config.MaxRetries = 0 /\ config.BackoffEnabled
            /\ config.RestartDelay = 1
            /\ failureCount[w] >= 1
            /\ pc[w] = "failed" /\ pc'[w] # "failed" ) =>
              /\ backoffDuration'[w] >= backoffDuration[w]
              /\ backoffDuration'[w] <= MaxBackoffDuration
              /\ backoffDuration[w] = MaxBackoffDuration =>
                     backoffDuration'[w] = MaxBackoffDuration]_vars

\* C17: a manager that is back at its select after a process it launched has
\* exited, cleanly or not, waits the restart delay and has a backoff duration
\* equal to the restart delay; and no step between the launch of a process
\* and the return of startProcess raises the backoff duration.
C17_ExitRetriesAtRestartDelay ==
    /\ [](\A w \in Managers :
            (pc[w] = "select" /\ launches[w] >= 1 /\ failureCount[w] = 0) =>
                /\ tickerInterval[w] = config.RestartDelay
                /\ backoffDuration[w] = config.RestartDelay)
    /\ [][\A w \in Managers :
            pc[w] \in {"store", "updRunning", "wait", "clear", "updExit",
                       "returned"} =>
                backoffDuration'[w] <= backoffDuration[w]]_vars

\* A process launched after a launch failure has exited with a non-clean
\* result and the manager waits for the next tick.
C17_FailedExitAfterBackoff ==
    \E w \in Managers :
        /\ config.BackoffEnabled /\ pc[w] = "select"
        /\ attempts[w] > launches[w] /\ launches[w] >= 1
        /\ failureCount[w] = 0 /\ stats[w].Status = StatusFailed
        /\ tickerInterval[w] = config.RestartDelay

\* C18: a termination sequence whose signal could not be sent force-kills in
\* its next step and is then at its return, without a second of grace wait or
\* of pause; that step changes no manager's position, does not cancel the
\* context and does not move the main goroutine.
C18_SignalErrorForceKills ==
    /\ [](\A t \in Terminators :
            (term[t].pc = "return" /\ ~term[t].requested) =>
                term[t].kills >= 1 /\ term[t].waited = 0 /\ term[t].slept = 0)
    /\ [][\A t \in Terminators :
            (term[t].pc = "signalFailed" /\ term'[t] # term[t]) =>
                /\ term'[t].pc = "return"
                /\ term'[t].kills = term[t].kills + 1
                /\ term'[t].waited = 0
                /\ pc' = pc /\ mainPc' = mainPc /\ ctxDone' = ctxDone]_vars

\* A restart request whose signal failed has force-killed and is at its
\* return, while the manager it acted on is still in its loop.
C18_RestartSignalFailed ==
    \E r \in Requests :
        /\ term[r].pc = "return" /\ ~term[r].requested
        /\ term[r].kills >= 1 /\ term[r].waited = 0
        /\ Looping(term[r].target) /\ mainPc = "run"

\* C19: a termination sequence is begun, by gracefulShutdown or by
\* handleRestart, only against a process that is live, so that for a manager
\* without a live process no signal is sent; and the step of gracefulShutdown
\* of such a manager leaves its statistics, its launch failure count, its
\* backoff duration and its currentProc as they are.
C19_NoProcessNoSignal ==
    [][/\ \A t \in Terminators :
            (term[t].pc = "idle" /\ term'[t].pc # "idle") =>
                ProcState(term'[t].target, term'[t].proc) = "live"
       /\ \A w \in Managers :
            ( /\ pc[w] = "shutdown" /\ pc'[w] # "shutdown"
              /\ \A p \in Pids : ProcState(w, p) # "live" ) =>
                /\ term'[w] = term[w] /\ stats'[w] = stats[w]
                /\ failureCount'[w] = failureCount[w]
                /\ backoffDuration'[w] = backoffDuration[w]
                /\ currentProc'[w] = currentProc[w]]_vars

\* C20: currentProc of a manager changes only in a step of its own
\* startProcess, which stores the handle after cmd.Start and clears it after
\* cmd.Wait; no step of a restart request (or of any termination sequence)
\* changes it.
C20_OnlyWorkerWritesCurrentProc ==
    [][\A w \in Managers :
          /\ currentProc'[w] # currentProc[w] =>
                \/ /\ pc[w] = "store" /\ pc'[w] = "updRunning"
                   /\ currentProc[w] = 0 /\ currentProc'[w] = LastPid(w)
                \/ /\ pc[w] = "clear" /\ pc'[w] = "updExit"
                   /\ currentProc'[w] = 0
          /\ (\E t \in Terminators : term'[t] # term[t]) =>
                currentProc' = currentProc]_vars

\* A restart request has run a whole termination sequence against the process
\* of a manager that then cleared its handle itself.
C20_RestartThenWorkerClears ==
    \E r \in Requests :
        /\ term[r].pc = "return" /\ term[r].requested
        /\ term[r].proc = LastPid(term[r].target)
        /\ currentProc[term[r].target] = 0
        /\ pc[term[r].target] \in {"updExit", "returned", "select"}

\* C21: a restart request that has begun its termination sequence against a
\* live process of a manager whose command can always be launched, with the
\* context not cancelled, leads to that process being dead and the manager
\* having launched a later process, unless the context is cancelled in
\* between.
C21_RestartRelaunches ==
    \A r \in Requests : \A w \in Managers : \A p \in 1..(MaxLaunches - 1) :
        ( /\ term[r].pc = "signal" /\ term[r].target = w /\ term[r].proc = p
          /\ ProcState(w, p) = "live" /\ ~ctxDone
          /\ cmds[w].launch = "always" )
        ~> ( \/ ProcState(w, p) # "live" /\ launches[w] > p
             \/ ctxDone )

\* The process a restart request was sent against has been force-killed and
\* the manager runs the next one.
C21_RestartedAndRunning ==
    \E r \in Requests :
        LET w == term[r].target
        IN  /\ term[r].pc \in {"sleep", "return"} /\ term[r].kills >= 1
            /\ term[r].proc = 1 /\ ~ctxDone
            /\ ProcState(w, 1) \in {"exited1", "reaped1"}
            /\ launches[w] = 2 /\ ProcState(w, 2) = "live"

\* C22: a step that moves one manager along its code, its return on the
\* max-failure path included, leaves the statistics, the launch failure
\* count, the backoff duration, the currentProc and the position of every
\* other manager as they are, does not cancel the context and does not move
\* the main goroutine.
C22_WorkersIndependent ==
    [][\A w \in Managers :
          pc'[w] # pc[w] =>
              /\ \A v \in Managers \ {w} :
                    /\ stats'[v] = stats[v]
                    /\ failureCount'[v] = failureCount[v]
                    /\ backoffDuration'[v] = backoffDuration[v]
                    /\ currentProc'[v] = currentProc[v]
                    /\ pc'[v] = pc[v]
              /\ ctxDone' = ctxDone
              /\ mainPc' = mainPc]_vars

\* C23: a call of startProcess that is not the first of its manager begins at
\* least the interval the ticker was last reset to (the restart delay, or the
\* backoff duration after a launch failure) after the call before it, and
\* takes the tick of the channel with it.
C23_AttemptsSpacedByInterval ==
    [][\A w \in Managers :
          (attempts'[w] = attempts[w] + 1 /\ attempts[w] >= 1) =>
              /\ sinceAttempt[w] >= Min(tickerInterval[w], MaxClock)
              /\ tickPending[w] /\ ~tickPending'[w]]_vars

\* C24: when the loop of main that creates the managers is over, the manager
\* of every command with a token has been started and that of every command
\* without one has not; main has exited with status 1 exactly when no manager
\* was created, and then no manager runs.
C24_StartupSkipsFailedConstruction ==
    mainPc \in {"run", "exit1"} =>
        /\ \A w \in Managers : Constructible(cmds[w]) <=> pc[w] # "absent"
        /\ mainPc = "exit1" <=> \A w \in Managers : ~Constructible(cmds[w])
        /\ mainPc = "exit1" => \A w \in Managers : ~Looping(w)

\* The first command was skipped, the second one runs and main waits for a
\* signal.
C24_SkippedOneStartedOther ==
    /\ mainPc = "run"
    /\ ~Constructible(cmds[1]) /\ pc[1] = "absent"
    /\ Constructible(cmds[2]) /\ pc[2] = "select"

\* C25: on Unix a termination sequence whose SIGTERM was sent without error
\* has sent it to the process group of the managed process (the process
\* exists then, so the lookup of its group succeeds).
C25_GracefulStopSignalsGroup ==
    \A t \in Terminators :
        (goos = "unix" /\ term[t].requested) => term[t].signalled = "group"

\* C26: on Unix the last forceKillProcess call of a termination sequence tried
\* the kill of the process group exactly when the lookup of the group
\* succeeded, tried proc.Kill exactly when the lookup or the group kill
\* failed, and tried the group first.
C26_ForceKillGroupFirst ==
    \A t \in Terminators :
        (goos = "unix" /\ term[t].kills >= 1) =>
            LET tried == term[t].killTried
                has(k) == \E i \in 1..Len(tried) : tried[i] = k
            IN  /\ has("group") <=> term[t].lookupOk
                /\ has("process") <=>
                      (~term[t].lookupOk \/ ~term[t].groupKillOk)
                /\ has("group") => tried[1] = "group"
                /\ Len(tried) \in 1..2

\* After the grace period a force kill found the group, failed to kill it and
\* fell back to proc.Kill.
C26_GroupKillFailedFallback ==
    \E t \in Terminators :
        /\ goos = "unix" /\ term[t].requested /\ term[t].kills = 1
        /\ term[t].lookupOk /\ ~term[t].groupKillOk
        /\ term[t].killTried = << "group", "process" >>

\* C27: the termination sequence of a PowerShell command never waits longer
\* for the exit than the configured grace period.
C27_ShellGraceNotLonger ==
    \A t \in Terminators :
        (InFlight(t) /\ cmds[term[t].target].powershell) =>
            /\ gracePeriod(term[t].target) <= config.GracePeriod
            /\ term[t].waited <= config.GracePeriod

\* C28: a GetStats call changes nothing of any manager; an update of the
\* statistics of a manager changes no snapshot already returned; and no
\* pointer in a returned snapshot refers to a variable that the statistics of
\* the manager refer to.
C28_SnapshotIsFullCopy ==
    /\ [][snapshot' # snapshot =>
             /\ stats' = stats /\ pc' = pc /\ currentProc' = currentProc
             /\ failureCount' = failureCount
             /\ backoffDuration' = backoffDuration]_vars
    /\ [][stats' # stats => snapshot' = snapshot]_vars
    /\ [](snapshot.lastFailure # << 0, 0 >> =>
             snapshot.lastFailure #
                 LastFailureRef(snapshot.of, stats[snapshot.of]))

\* The indices of s at which a run of characters that are not white space
\* begins, the index at which the run beginning at i ends, and the n-th run.
C29_TokenStarts(s) ==
    { i \in 1..Len(s) : ~IsSpace(s[i]) /\ (i = 1 \/ IsSpace(s[i - 1])) }

C29_TokenEnd(s, i) ==
    CHOOSE j \in i..Len(s) :
        /\ \A k \in i..j : ~IsSpace(s[k])
        /\ j = Len(s) \/ IsSpace(s[j + 1])

C29_Token(s, n) ==
    LET i == CHOOSE k \in C29_TokenStarts(s) :
                 Cardinality({ m \in C29_TokenStarts(s) : m <= k }) = n
    IN  SubSeq(s, i, C29_TokenEnd(s, i))

\* C29: for a command string with at least one white-space-separated token
\* the construction succeeds, the executable is the first token, the
\* arguments are the remaining tokens in order, the launch failure count is 0
\* and the status is stopped; for an empty or white-space-only string the
\* construction returns an error and no manager.
C29_ConstructionSplitsCommand ==
    built # NotBuilt =>
        LET n == Cardinality(C29_TokenStarts(cmdText))
        IN  IF n = 0 THEN built = [ state |-> "error" ]
            ELSE /\ built.state = "ok"
                 /\ built.command = C29_Token(cmdText, 1)
                 /\ Len(built.args) = n - 1
                 /\ \A k \in 1..(n - 1) :
                        built.args[k] = C29_Token(cmdText, k + 1)
                 /\ built.failureCount = 0
                 /\ built.status = StatusStopped

\* A string with white space before its executable and one argument.
C29_BuiltWithArguments ==
    /\ built # NotBuilt /\ built.state = "ok"
    /\ IsSpace(cmdText[1]) /\ Len(built.args) = 1

\* C30: a call UpdateStats(status, pid) sets the status and the pid of the
\* statistics to its arguments, adds one to the restart count if the status
\* is starting and leaves it otherwise, adds one to the failure count and
\* sets the last failure if the status is failed and leaves the count
\* otherwise; after any sequence of calls the two counts are the numbers of
\* calls with status starting and with status failed.
C30_UpdateStatsCounts ==
    /\ [](\A w \in Managers :
             /\ stats[w].RestartCount = statusCalls[w].starting
             /\ stats[w].FailureCount = statusCalls[w].failed
             /\ stats[w].HasLastFailure <=> statusCalls[w].failed > 0)
    /\ [][\A w \in Managers :
             statusCalls'[w] # statusCalls[w] =>
                LET status == statusCalls'[w].lastStatus
                IN  /\ stats'[w].Status = status
                    /\ stats'[w].PID = statusCalls'[w].lastPid
                    /\ stats'[w].RestartCount = stats[w].RestartCount +
                           (IF status = StatusStarting THEN 1 ELSE 0)
                    /\ stats'[w].FailureCount = stats[w].FailureCount +
                           (IF status = StatusFailed THEN 1 ELSE 0)
                    /\ status = StatusFailed => stats'[w].HasLastFailure]_vars
    /\ [][\A w \in Managers :
             stats'[w] # stats[w] => statusCalls'[w] # statusCalls[w]]_vars

\* Calls with status starting and with status failed, from the loop and
\* from outside it, have been counted.
C30_StartingAndFailedCounted ==
    \E w \in Managers :
        /\ statusCalls[w].starting = 2 /\ statusCalls[w].failed = 2
        /\ statusCalls[w].external = MaxStatusCalls
        /\ stats[w].RestartCount = 2 /\ stats[w].FailureCount = 2
        /\ stats[w].Status = StatusStarting /\ stats[w].PID = 1

\* The trimmed line: what is left of it between its first and its last
\* character that is not white space.
C31_Trimmed(l) ==
    LET b == l.body
        inner == { i \in 1..Len(b) : ~IsSpace(b[i]) }
        first == CHOOSE i \in inner : \A j \in inner : i <= j
        last == CHOOSE i \in inner : \A j \in inner : j <= i
    IN  IF inner = {} THEN Line(0, << >>, l.filler)
        ELSE Line(0, SubSeq(b, first, IF l.filler > 0 THEN Len(b) ELSE last),
                  l.filler)

\* The lines of the file that are neither empty nor a comment once trimmed.
C31_CommandLines(file) ==
    { i \in 1..Len(file) :
        LET c == C31_Trimmed(file[i])
        IN  RawLen(c) > 0 /\ ~(c.body # << >> /\ c.body[1] = "#") }

C32_InRegistry(id) ==
    \E w \in Managers : pc[w] # "absent" /\ id = Id(w, << >>, 0)

\* No state of any manager changes in the step.
C32_WorkersUntouched ==
    /\ pc' = pc /\ currentProc' = currentProc /\ stats' = stats
    /\ failureCount' = failureCount /\ backoffDuration' = backoffDuration
    /\ tickerInterval' = tickerInterval /\ tickPending' = tickPending
    /\ osProc' = osProc /\ term' = term /\ attempts' = attempts
    /\ launches' = launches /\ wg' = wg /\ ctxDone' = ctxDone

\* C32, as stated: a restart request is answered 405 for a method other
\* than POST, 404 for an id that is not in the registry and 200 with status
\* restarted for a registered manager, also one without a live process; a
\* statistics request for an unregistered id is answered 404; no error
\* answer changes the state of a manager.
C32_AnswersByRegistry ==
    /\ [](answer.handler = "restart" =>
             answer.code = IF answer.method # "POST" THEN 405
                           ELSE IF ~C32_InRegistry(answer.id) THEN 404
                           ELSE 200)
    /\ []((answer.handler = "process" /\ ~C32_InRegistry(answer.id)) =>
             answer.code = 404)
    /\ []((answer.handler = "restart" /\ answer.code = 200) =>
             answer.body = "restarted")
    /\ [][(answer' # answer /\ answer'.code # 200) =>
             C32_WorkersUntouched]_vars

\* The id is empty, longer than 50 characters or has one of the characters
\* the handlers refuse.
C32_Malformed(id) ==
    LET n == (IF id.name > 0 THEN 9 ELSE 0) + Len(id.extra) + id.pad
    IN  \/ n = 0 \/ n > 50
        \/ \E i \in 1..Len(id.extra) :
              id.extra[i] \in {".", "/", "\\", "?", "*", "|", "<", ">", ":"}

\* C32: a restart request is answered 405 for a method other than POST,
\* else 400 for a malformed id, else 404 for an id that is not in the
\* registry, else 200 with status restarted, also for a manager without a
\* live process; a statistics request is answered 400 for a malformed id and
\* 404 for any other unregistered id; no error answer changes the state of
\* a manager.
C32_AnswersByIdAndRegistry ==
    /\ [](answer.handler = "restart" =>
             answer.code = IF answer.method # "POST" THEN 405
                           ELSE IF C32_Malformed(answer.id) THEN 400
                           ELSE IF ~C32_InRegistry(answer.id) THEN 404
                           ELSE 200)
    /\ []((answer.handler = "process" /\ ~C32_InRegistry(answer.id)) =>
             answer.code = IF C32_Malformed(answer.id) THEN 400 ELSE 404)
    /\ []((answer.handler = "restart" /\ answer.code = 200) =>
             answer.body = "restarted")
    /\ [][(answer' # answer /\ answer'.code # 200) =>
             C32_WorkersUntouched]_vars

\* A restart request for a manager that has not launched a process yet has
\* been answered 200.
C32_RestartedWithoutProcess ==
    \E w \in Managers :
        /\ answer = Restarted(w) /\ launches[w] = 0 /\ currentProc[w] = 0

\* C33: what a reader holding both read locks sees of a manager is
\* consistent: the handle is never empty while the statistics still report
\* running with the pid of the process, and the handle is never set while the
\* statistics do not yet report running with the pid of that process.
C33_HandleAndStatsAgree ==
    \A w \in Managers :
        /\ ~(currentProc[w] = 0 /\ stats[w].Status = StatusRunning
                /\ stats[w].PID # 0)
        /\ currentProc[w] # 0 =>
              (stats[w].Status = StatusRunning /\ stats[w].PID = currentProc[w])

\* C34: under every configuration that validateConfig accepts, a restart
\* delay of 0 included, the interval a manager creates its ticker with or
\* resets it to is positive: the loop of Start begins, and no manager
\* panics on a non-positive interval.
C34_TickerIntervalPositive ==
    \A w \in Managers :
        /\ pc[w] = "new" => backoffDuration[w] > 0
        /\ pc[w] # "panic"

\* C35: in every state of a manager the backoff duration is at most 300 s,
\* and with backoff enabled the duration computed for the k-th consecutive
\* launch failure, k >= 1, is positive.
C35_BackoffWithinRange ==
    \A w \in Managers :
        /\ backoffDuration[w] <= MaxBackoffDuration
        /\ (config.BackoffEnabled /\ failureCount[w] >= 1) =>
               backoffDuration[w] > 0

\* C36: with a retry ceiling N > 0 the launch failure count of a manager is
\* never above N, before and after the shutdown notice.
C36_FailureCountWithinCeiling ==
    \A w \in Managers :
        config.MaxRetries > 0 => failureCount[w] <= config.MaxRetries

\* After the shutdown notice a manager has made another launch attempt,
\* and its failure count is at the ceiling.
C36_CeilingReached ==
    \E w \in Managers :
        /\ config.MaxRetries > 0 /\ failureCount[w] = config.MaxRetries
        /\ ctxDone /\ attempts[w] > attemptsAtCancel[w]

\* C37: a manager whose launch failure count is 0 has a backoff duration
\* equal to the configured restart delay; and with backoff disabled the
\* backoff duration is the configured restart delay in every state.
C37_BackoffIsDelayAtZeroFailures ==
    \A w \in Managers :
        /\ failureCount[w] = 0 => backoffDuration[w] = config.RestartDelay
        /\ ~config.BackoffEnabled => backoffDuration[w] = config.RestartDelay

\* With backoff disabled a manager has failed to launch twice in a row.
C37_FailuresWithoutBackoff ==
    \E w \in Managers :
        /\ ~config.BackoffEnabled /\ failureCount[w] >= 2
        /\ config.RestartDelay > 0

\* C38: when main reports that all managers have shut down, every manager
\* that was started has left its loop and called wg.Done once, its handle is
\* empty, and no process launched by a manager is live.
C38_AllShutDownMeansNoneLeft ==
    mainPc = "shutdownOk" =>
        /\ wg = 0
        /\ \A w \in Managers :
              pc[w] # "absent" =>
                  /\ pc[w] \in {"stopped", "fatal"}
                  /\ currentProc[w] = 0
                  /\ \A p \in Pids : osProc[w][p] # "live"

\* main has reported the shutdown of a manager whose process was running at
\* the shutdown notice.
C38_ReportedAfterLiveProcess ==
    /\ mainPc = "shutdownOk"
    /\ \E w \in liveAtCancel : launches[w] >= 1 /\ pc[w] = "stopped"

\* C39: a manager whose loop has exited, on the shutdown path or on the
\* max-failure path, stays as it is: it launches nothing, its handle is and
\* stays empty, and its statistics, its failure count and its backoff
\* duration do not change, whatever restart requests are served for it.
C39_ExitIsAbsorbing ==
    /\ [](\A w \in Managers :
             pc[w] \in {"stopped", "fatal"} => currentProc[w] = 0)
    /\ [][\A w \in Managers :
             pc[w] \in {"stopped", "fatal"} =>
                 /\ pc'[w] = pc[w]
                 /\ attempts'[w] = attempts[w] /\ launches'[w] = launches[w]
                 /\ currentProc'[w] = currentProc[w]
                 /\ stats'[w] = stats[w]
                 /\ failureCount'[w] = failureCount[w]
                 /\ backoffDuration'[w] = backoffDuration[w]
                 /\ \A p \in Pids :
                       osProc'[w][p] = "live" => osProc[w][p] = "live"]_vars

\* A restart request is being served against a manager whose loop has
\* exited.
C39_RestartServedAfterExit ==
    \E r \in Requests :
        /\ InFlight(r) /\ term[r].target \in Managers
        /\ pc[term[r].target] \in {"stopped", "fatal"}

\* C40: the statistics of a manager, and every snapshot GetStats has
\* returned, have a pid other than 0 only with status running.
C40_PidOnlyWhenRunning ==
    /\ \A w \in Managers :
          stats[w].PID # 0 => stats[w].Status = StatusRunning
    /\ snapshot.stats.PID # 0 => snapshot.stats.Status = StatusRunning

\* A snapshot taken after a process of the manager has failed: status
\* failed, pid 0.
C40_SnapshotAfterFailure ==
    /\ snapshot.of \in Managers /\ launches[snapshot.of] >= 1
    /\ snapshot.stats.Status = StatusFailed /\ snapshot.stats.PID = 0

=============================================================================
